---------------------------- MODULE Spec2Model ----------------------------
(***************************************************************************)
(* A model of the image pipeline of dllup-rs (src/src/image_processor.rs): *)
(* the resize dispatcher (pending counter, mutex, condition variable), the *)
(* variant planner, the original cache store and the process() pipeline    *)
(* over a filesystem.                                                      *)
(*                                                                         *)
(* The module holds several specifications over one set of variables; each *)
(* specification moves its own group of variables and leaves the others at *)
(* their initial value.                                                    *)
(*   SpecDispatcher / FairDispatcher : ResizeDispatcher alone              *)
(*   SpecPlanner : target_resize_widths and the variant list built from it *)
(*   SpecCache   : sequential ensure_original_cached calls under one name  *)
(*   Spec        : process() calls, the resize jobs they schedule and one  *)
(*                 thread in wait_for_pending_resizes(), over the cache    *)
(*                 directory                                               *)
(*   SpecRace    : two threads in ensure_original_cached, step by step     *)
(*   SpecInsert, SpecNormalize, SpecTagValue, SpecRaster, SpecDetect,      *)
(*   SpecDisplay : one call of insert_exif_segment,                        *)
(*                 normalize_exif_orientation, tag_value_to_u16,           *)
(*                 process_raster, detect_format and                       *)
(*                 compute_display_dimensions on each of a set of inputs   *)
(*   SpecEnsure  : one ensure_original_cached call over a cache that may   *)
(*                 already hold the source                                 *)
(*   SpecHeights : the variants of one source, planned by the full path    *)
(*                 and again from the dimension sidecar                    *)
(*   SpecUrl     : one public_url_for call on each configured prefix and   *)
(*                 relative path                                           *)
(*   SpecReinsert: insert_exif_segment applied to its own result           *)
(*   SpecMain    : the build driver of src/src/main.rs, group by group     *)
(***************************************************************************)
EXTENDS Integers, Sequences, FiniteSets, TLC

\* ------------------------------------------------------------------ bounds

\* Number of job slots (calls of ResizeDispatcher::spawn) of a run.
MaxJobs == 2

\* Number of threads that call wait_for_pending_resizes().
NumWaiters == 2

\* Longest configured size list the planner is tried on.
MaxSizes == 2

\* Largest width, height, size or layout width the planner is tried on.
MaxWidth == 4

\* Number of distinct byte contents offered to the original cache store.
MaxContents == 4

\* Number of process() calls of a run of the pipeline.
MaxCalls == 2

\* Number of threads that run ensure_original_cached at the same time.
NumRacers == 2

\* Largest width, height and layout width compute_display_dimensions is tried
\* on, besides the documented examples.
MaxDim == 22

\* Most groups of pages (by depth) of a build, most pages of a group, and most
\* resize jobs the pages of a build spawn.
MaxGroups == 2

MaxGroupSize == 2

MaxMainJobs == 2

Jobs == 1..MaxJobs

Waiters == 1..NumWaiters

\* ------------------------------------------------------------ dispatcher state

VARIABLES
    pending,      \* ResizeDispatcher.pending (AtomicUsize)
    lockOwner,    \* holder of ResizeDispatcher.lock, or NoOwner
    jpc,          \* per job slot: where the spawn call / the pool closure is
    wpc,          \* per waiter: where its ResizeDispatcher::wait() call is
    mustFinish,   \* history: per waiter, the jobs counted when wait() was called
    parked        \* history: per waiter, whether it ever slept on the condvar

dvars == <<pending, lockOwner, jpc, wpc, mustFinish, parked>>

\* --------------------------------------------------------------- planner state

VARIABLES
    pIn,          \* the planner's inputs: config.sizes, config.layout_width,
                  \*   display_width, original_width
    pPc,          \* "input", "planned" (target widths computed), "built"
    pWidths,      \* the Vec<u32> target_resize_widths returned
    pHeight,      \* the original height the variant list was built with
    pVariants     \* the variants list built from pWidths

pvars == <<pIn, pPc, pWidths, pHeight, pVariants>>

\* ------------------------------------------------------------ filesystem state

VARIABLES
    fs,           \* the cache directory: file name -> bytes, for the files present
    cCall         \* history: the last ensure_original_cached call of SpecCache

cvars == <<fs, cCall>>

\* -------------------------------------------------------------- pipeline state

VARIABLES
    calls,        \* number of process() calls made
    last,         \* history: what the last process() call did
    jobBatch,     \* per job slot: the VariantJobs its closure has still to write
    jobSrc,       \* per job slot: the source bytes its closure holds (Arc<[u8]>)
    failedPaths,  \* history: variant paths whose generation a job logged as failed
    advertised,   \* history: variant paths of the ProcessedImages returned so far
    owed,         \* history: `advertised` when wait_for_pending_resizes was called
    jobLog        \* history: per job slot, the paths it was handed, whether its
                  \*   decode succeeded, the paths whose generation it attempted
                  \*   and those it logged as failed

fvars == <<calls, last, jobBatch, jobSrc, failedPaths, advertised, owed, jobLog>>

\* ------------------------------------------------------ function and race state

VARIABLES
    uCall,        \* one call of a pure function: its name, arguments and result
    racers        \* per thread of a concurrent ensure_original_cached run: where
                  \*   its call is and what it holds

xvars == <<uCall, racers>>

\* Everything that is not the dispatcher's.
nondisp == <<pvars, cvars, fvars, xvars>>

vars == <<dvars, pvars, cvars, fvars, xvars>>

\* AtomicUsize arithmetic wraps; the width is scaled down from 2^64.
UsizeModulus == 65536

NoOwner == <<"none", 0>>

WaitThread(w) == <<"waiter", w>>

\* The closure handed to rayon has returned from job().
JobBodyFinished(j) == jpc[j] \in {"finishing", "locking", "done"}

PlannerIdle ==
    /\ pIn = [sizes |-> <<>>, layout |-> 0, display |-> 0, ow |-> 0]
    /\ pPc = "idle"
    /\ pWidths = <<>>
    /\ pHeight = 0
    /\ pVariants = <<>>

DispatcherIdle ==
    /\ pending = 0
    /\ lockOwner = NoOwner
    /\ jpc = [j \in Jobs |-> "unspawned"]
    /\ wpc = [w \in Waiters |-> "idle"]
    /\ mustFinish = [w \in Waiters |-> {}]
    /\ parked = [w \in Waiters |-> FALSE]

\* An empty cache directory (ImageProcessor::new creates it when missing).
CacheIdle ==
    /\ fs = <<>>
    /\ cCall = [n |-> 0]

\* No bytes: a job slot that holds no source.
NoBytes == [kind |-> "none"]

\* The log of a job slot not spawned yet.
NoLog == [handed |-> {}, decoded |-> "no", attempted |-> {}, failed |-> {}]

\* No process() call made, no job scheduled.
PipelineIdle ==
    /\ calls = 0
    /\ last = [n |-> 0]
    /\ jobBatch = [j \in Jobs |-> <<>>]
    /\ jobSrc = [j \in Jobs |-> NoBytes]
    /\ failedPaths = {}
    /\ advertised = {}
    /\ owed = {}
    /\ jobLog = [j \in Jobs |-> NoLog]

\* No function called, no concurrent run of ensure_original_cached.
UnitIdle == uCall = [fn |-> "none"]

RaceIdle == racers = <<>>

DispatcherInit ==
    DispatcherIdle /\ PlannerIdle /\ CacheIdle /\ PipelineIdle /\ UnitIdle /\ RaceIdle

\* spawn(): self.pending.fetch_add(1, SeqCst). Slots are taken in order.
SpawnCount(j) ==
    /\ jpc[j] = "unspawned"
    /\ \A i \in Jobs : i < j => jpc[i] # "unspawned"
    /\ pending' = (pending + 1) % UsizeModulus
    /\ jpc' = [jpc EXCEPT ![j] = "counted"]
    /\ UNCHANGED <<lockOwner, wpc, mustFinish, parked, nondisp>>

\* spawn(): rayon::spawn_fifo(closure).
SpawnEnqueue(j) ==
    /\ jpc[j] = "counted"
    /\ jpc' = [jpc EXCEPT ![j] = "queued"]
    /\ UNCHANGED <<pending, lockOwner, wpc, mustFinish, parked, nondisp>>

\* A pool thread runs the closure up to the return of job() (the dispatcher
\* does not look at what the job did).
JobBody(j) ==
    /\ jpc[j] = "queued"
    /\ jpc' = [jpc EXCEPT ![j] = "finishing"]
    /\ UNCHANGED <<pending, lockOwner, wpc, mustFinish, parked, nondisp>>

\* A slip: the previous value compared with 0 instead of 1.
JobFinishedCmpZero(j) ==
    /\ jpc[j] = "finishing"
    /\ pending' = (pending + UsizeModulus - 1) % UsizeModulus
    /\ jpc' = [jpc EXCEPT ![j] = IF pending = 0 THEN "locking" ELSE "done"]
    /\ UNCHANGED <<lockOwner, wpc, mustFinish, parked, nondisp>>

\* job_finished(): if self.pending.fetch_sub(1, SeqCst) == 1 { ... }
JobFinished(j) ==
    /\ jpc[j] = "finishing"
    /\ pending' = (pending + UsizeModulus - 1) % UsizeModulus
    /\ jpc' = [jpc EXCEPT ![j] = IF pending = 1 THEN "locking" ELSE "done"]
    /\ UNCHANGED <<lockOwner, wpc, mustFinish, parked, nondisp>>

\* job_finished(): let _guard = self.lock.lock().unwrap();
\* self.condvar.notify_all(); and _guard goes out of scope. Nothing else happens
\* under the mutex, so the critical section is one step.
JobNotify(j) ==
    /\ jpc[j] = "locking"
    /\ lockOwner = NoOwner
    /\ wpc' = [w \in Waiters |-> IF wpc[w] = "sleeping" THEN "woken" ELSE wpc[w]]
    /\ jpc' = [jpc EXCEPT ![j] = "done"]
    /\ UNCHANGED <<pending, lockOwner, mustFinish, parked, nondisp>>

\* wait_for_pending_resizes() -> RESIZE_DISPATCHER.wait() is entered. The
\* waiting threads are interchangeable: they are numbered in the order of
\* their calls.
WaitCall(w) ==
    /\ wpc[w] = "idle"
    /\ \A v \in Waiters : v < w => wpc[v] # "idle"
    /\ wpc' = [wpc EXCEPT ![w] = "locking"]
    /\ mustFinish' = [mustFinish EXCEPT ![w] = {j \in Jobs : jpc[j] # "unspawned"}]
    /\ UNCHANGED <<pending, lockOwner, jpc, parked, nondisp>>

\* The same call, with no record of the jobs counted so far.
WaitEnter(w) ==
    /\ wpc[w] = "idle"
    /\ \A v \in Waiters : v < w => wpc[v] # "idle"
    /\ wpc' = [wpc EXCEPT ![w] = "locking"]
    /\ UNCHANGED <<pending, lockOwner, jpc, mustFinish, parked, nondisp>>

\* wait(): let mut guard = self.lock.lock().unwrap();
WaitLock(w) ==
    /\ wpc[w] = "locking"
    /\ lockOwner = NoOwner
    /\ lockOwner' = WaitThread(w)
    /\ wpc' = [wpc EXCEPT ![w] = "checking"]
    /\ UNCHANGED <<pending, jpc, mustFinish, parked, nondisp>>

\* A slip: the counter is looked at once only ("if" for "while"), so that a
\* thread that wakes up returns without looking again.
WaitCheckOnce(w) ==
    /\ wpc[w] = "checking"
    /\ IF pending > 0 /\ ~parked[w]
          THEN /\ wpc' = [wpc EXCEPT ![w] = "parking"]
               /\ UNCHANGED lockOwner
          ELSE /\ wpc' = [wpc EXCEPT ![w] = "returned"]
               /\ lockOwner' = NoOwner
    /\ UNCHANGED <<pending, jpc, mustFinish, parked, nondisp>>

\* wait(): while self.pending.load(SeqCst) > 0 { ... }, and the return, which
\* drops the guard.
WaitCheck(w) ==
    /\ wpc[w] = "checking"
    /\ IF pending > 0
          THEN /\ wpc' = [wpc EXCEPT ![w] = "parking"]
               /\ UNCHANGED lockOwner
          ELSE /\ wpc' = [wpc EXCEPT ![w] = "returned"]
               /\ lockOwner' = NoOwner
    /\ UNCHANGED <<pending, jpc, mustFinish, parked, nondisp>>

\* wait(): self.condvar.wait(guard) unlocks the mutex and blocks, atomically.
WaitPark(w) ==
    /\ wpc[w] = "parking"
    /\ lockOwner' = NoOwner
    /\ wpc' = [wpc EXCEPT ![w] = "sleeping"]
    /\ parked' = [parked EXCEPT ![w] = TRUE]
    /\ UNCHANGED <<pending, jpc, mustFinish, nondisp>>

\* Condvar::wait may wake up with no notification.
WaitSpurious(w) ==
    /\ wpc[w] = "sleeping"
    /\ wpc' = [wpc EXCEPT ![w] = "woken"]
    /\ UNCHANGED <<pending, lockOwner, jpc, mustFinish, parked, nondisp>>

\* Condvar::wait returns with the mutex locked again.
WaitReacquire(w) ==
    /\ wpc[w] = "woken"
    /\ lockOwner = NoOwner
    /\ lockOwner' = WaitThread(w)
    /\ wpc' = [wpc EXCEPT ![w] = "checking"]
    /\ UNCHANGED <<pending, jpc, mustFinish, parked, nondisp>>

\* The steps of one spawned job after the counter was incremented, and of one
\* thread inside wait(). Each thread has at most one of them enabled.
JobProgress(j) == SpawnEnqueue(j) \/ JobBody(j) \/ JobFinished(j) \/ JobNotify(j)

WaitProgress(w) == WaitLock(w) \/ WaitCheck(w) \/ WaitPark(w) \/ WaitReacquire(w)

DispatcherNext ==
    \/ \E j \in Jobs : SpawnCount(j)
    \/ \E j \in Jobs : SpawnEnqueue(j)
    \/ \E j \in Jobs : JobBody(j)
    \/ \E j \in Jobs : JobFinished(j)
    \/ \E j \in Jobs : JobNotify(j)
    \/ \E w \in Waiters : WaitCall(w)
    \/ \E w \in Waiters : WaitLock(w)
    \/ \E w \in Waiters : WaitCheck(w)
    \/ \E w \in Waiters : WaitPark(w)
    \/ \E w \in Waiters : WaitSpurious(w)
    \/ \E w \in Waiters : WaitReacquire(w)

SpecDispatcher == DispatcherInit /\ [][DispatcherNext]_vars

FairDispatcherNext ==
    \/ \E j \in Jobs : SpawnCount(j)
    \/ \E j \in Jobs : JobProgress(j)
    \/ \E w \in Waiters : WaitEnter(w)
    \/ \E w \in Waiters : WaitProgress(w)
    \/ \E w \in Waiters : WaitSpurious(w)

\* Every spawned job is enqueued, run and finished; every thread inside wait()
\* keeps running.  spawn() and wait() need not be called, and a spurious
\* wake-up need not happen.
DispatcherFairness ==
    /\ \A j \in Jobs : WF_vars(JobProgress(j))
    /\ \A w \in Waiters : WF_vars(WaitProgress(w))

FairDispatcher == DispatcherInit /\ [][FairDispatcherNext]_vars /\ DispatcherFairness

\* ------------------------------------------------------------ f64 arithmetic

\* A natural number of up to 75 bits: five limbs of 15 bits, the lowest first.
LimbBase == 32768

Limbs == 5

BigOf(n) == <<n % LimbBase, (n \div LimbBase) % LimbBase, n \div (LimbBase * LimbBase), 0, 0>>

\* The one element of a set of one element: {F(v) : v \in {e}} computes e
\* once, where F would compute it at every use.
The(S) == CHOOSE y \in S : TRUE

\* The limbs of x * n + carry from limb i on, for n below 2^15.
RECURSIVE BigScale(_, _, _, _)
BigScale(x, n, i, carry) ==
    IF i > Limbs THEN <<>>
    ELSE The({<<d % LimbBase>> \o BigScale(x, n, i + 1, d \div LimbBase) :
                 d \in {x[i] * n + carry}})

BigDouble(x, bit) == BigScale(x, 2, 1, bit)

BigHalf(x) ==
    [i \in 1..Limbs |->
        x[i] \div 2 + (IF i < Limbs THEN (x[i + 1] % 2) * (LimbBase \div 2) ELSE 0)]

\* x < y, comparing from limb i down.
RECURSIVE BigLessFrom(_, _, _)
BigLessFrom(x, y, i) ==
    IF i = 0 THEN FALSE
    ELSE IF x[i] # y[i] THEN x[i] < y[i]
    ELSE BigLessFrom(x, y, i - 1)

BigLess(x, y) == BigLessFrom(x, y, Limbs)

\* The limbs of x - y - borrow from limb i on, for x >= y.
RECURSIVE BigSubFrom(_, _, _, _)
BigSubFrom(x, y, i, borrow) ==
    IF i > Limbs THEN <<>>
    ELSE The({IF d < 0 THEN <<d + LimbBase>> \o BigSubFrom(x, y, i + 1, 1)
                       ELSE <<d>> \o BigSubFrom(x, y, i + 1, 0) :
                 d \in {x[i] - y[i] - borrow}})

BigSub(x, y) == BigSubFrom(x, y, 1, 0)

BigIsZero(x) == \A i \in 1..Limbs : x[i] = 0

BigIsOdd(x) == x[1] % 2 = 1

\* x >= 2^53: bit 53 is bit 8 of the fourth limb.
BigHas54Bits(x) == x[5] > 0 \/ x[4] >= 256

\* x * 2^k and x \div 2^k: whole limbs are moved, the rest is a scaling.
BigShiftLeft(x, k) ==
    The({[i \in 1..Limbs |-> IF i - (k \div 15) >= 1 THEN y[i - (k \div 15)] ELSE 0] :
            y \in {BigScale(x, 2 ^ (k % 15), 1, 0)}})

BigShiftRight(x, k) ==
    The({[i \in 1..Limbs |->
             y[i] \div (2 ^ (k % 15))
             + (IF i < Limbs THEN (y[i + 1] % (2 ^ (k % 15))) * (2 ^ (15 - (k % 15)))
                             ELSE 0)] :
            y \in {[i \in 1..Limbs |-> IF i + (k \div 15) <= Limbs
                                          THEN x[i + (k \div 15)] ELSE 0]}})

\* The number of bits of a limb and of a number (0 for 0).
LimbBitLength(n) == CHOOSE k \in 0..15 : n < 2 ^ k /\ (k = 0 \/ n >= 2 ^ (k - 1))

BigBitLength(x) ==
    IF BigIsZero(x) THEN 0
    ELSE The({15 * (top - 1) + LimbBitLength(x[top]) :
                 top \in {CHOOSE i \in 1..Limbs :
                             x[i] # 0 /\ \A k \in (i + 1)..Limbs : x[k] = 0}})

\* An f64 that is positive and normal: [m, e] is m * 2^e with a mantissa m of
\* exactly 53 bits.
\* The f64 nearest to a number that is x * 2^e, or just above it when sticky,
\* for x >= 2^52: x is cut to 53 bits and rounded to nearest, ties to even.
F64Round53(x, e, sticky) ==
    The({LET kept == BigShiftRight(x, t)
             guard == t > 0 /\ BigIsOdd(BigShiftRight(x, t - 1))
             below == t > 1 /\ x # BigShiftLeft(BigShiftRight(x, t - 1), t - 1)
             up == guard /\ (sticky \/ below \/ BigIsOdd(kept))
         IN  The({IF BigHas54Bits(y) THEN [m |-> BigHalf(y), e |-> e + t + 1]
                                     ELSE [m |-> y, e |-> e + t] :
                     y \in {IF up THEN BigScale(kept, 1, 1, 1) ELSE kept}}) :
            t \in {BigBitLength(x) - 53}})

\* n as f64 (u32 as f64, exact), for n in 1..2^30.
F64FromInt(n) ==
    The({[m |-> BigShiftLeft(x, 53 - BigBitLength(x)), e |-> BigBitLength(x) - 53] :
            x \in {BigOf(n)}})

\* One step of binary long division by d, until the quotient has 54 bits: the
\* remainder is doubled, d is taken off when it fits, the quotient gets the
\* bit.
QuotientStep(st, d) ==
    IF BigHas54Bits(st.q) THEN st
    ELSE The({IF BigLess(r2, d)
                 THEN [q |-> BigDouble(st.q, 0), r |-> r2, e |-> st.e - 1]
                 ELSE [q |-> BigDouble(st.q, 1), r |-> BigSub(r2, d), e |-> st.e - 1] :
                 r2 \in {BigDouble(st.r, 0)}})

\* k steps of the division, the first half of them and then the rest.
RECURSIVE QuotientSteps(_, _, _)
QuotientSteps(st, d, k) ==
    IF k = 1 THEN QuotientStep(st, d)
    ELSE The({QuotientSteps(mid, d, k - k \div 2) :
                 mid \in {QuotientSteps(st, d, k \div 2)}})

\* The f64 quotient of a number with integer part q and remainder r by d,
\* scaled by 2^e: a quotient of 54 bits takes at most 128 steps.
F64Quotient(q, r, d, e) ==
    The({F64Round53(st.q, st.e, ~BigIsZero(st.r)) :
            st \in {QuotientSteps([q |-> q, r |-> r, e |-> e], d, 128)}})

\* a as f64 / b as f64, for integers a >= 1 and b >= 1.
F64DivInts(a, b) ==
    The({F64Quotient(BigOf(a \div b), BigOf(a % b), d, 0) : d \in {BigOf(b)}})

\* n as f64 / x, for an integer n >= 1 and an f64 x.
F64IntDiv(n, x) ==
    The({F64Quotient(BigOf(0), BigOf(n), d, 0 - x.e) : d \in {x.m}})

\* x * n as f64, for an f64 x and an integer n in 1..2^15 - 1.
F64MulInt(x, n) ==
    The({F64Round53(product, x.e, FALSE) : product \in {BigScale(x.m, n, 1, 0)}})

\* x < 1.0 and x >= 2.0
F64BelowOne(x) == x.e < -52

\* A slip: x > 2.0
F64AboveTwo(x) == x.e > -52 /\ x # [m |-> <<0, 0, 0, 128, 0>>, e |-> -51]

F64AtLeastTwo(x) == x.e > -52

\* x.max(1.0)
F64Max1(x) == IF F64BelowOne(x) THEN F64FromInt(1) ELSE x

\* x.round() as u32: half away from zero, for an f64 x below 2^30.
F64RoundToInt(x) ==
    The({(twice[1] + twice[2] * LimbBase + 1) \div 2 :
            twice \in {BigShiftRight(x.m, 0 - x.e - 1)}})

\* ---------------------------------------------------------------- planner

Range(s) == {s[i] : i \in 1..Len(s)}

Min(a, b) == IF a < b THEN a ELSE b

Max(a, b) == IF a > b THEN a ELSE b

\* f64::round of the quotient a / b of two non-negative integers (half away
\* from zero), in exact arithmetic.
RoundDiv(a, b) == (2 * a + b) \div (2 * b)

\* Vec::dedup: consecutive equal elements collapse to one.
RECURSIVE Dedup(_)
Dedup(s) ==
    IF Len(s) <= 1 THEN s
    ELSE LET rest == Dedup(Tail(s))
         IN  IF Head(s) = Head(rest) THEN rest ELSE <<Head(s)>> \o rest

\* The working size list: config.sizes, then layout_width and display_width
\* pushed when absent.
WorkingSizes(sizes, layout, display) ==
    LET withLayout == IF layout \in Range(sizes) THEN sizes ELSE Append(sizes, layout)
    IN  IF display > 0 /\ display \notin Range(withLayout)
           THEN Append(withLayout, display)
           ELSE withLayout

\* The loop of target_resize_widths over the sizes from index i on, with the
\* widths pushed so far.
RECURSIVE ClampLoop(_, _, _, _)
ClampLoop(sizes, i, original, widths) ==
    IF i > Len(sizes) THEN widths
    ELSE LET target == Min(sizes[i], original)
         IN  IF target = 0 \/ target = original
                THEN ClampLoop(sizes, i + 1, original, widths)
             ELSE IF Len(widths) > 0 /\ widths[Len(widths)] = target
                THEN ClampLoop(sizes, i + 1, original, widths)
             ELSE ClampLoop(sizes, i + 1, original, Append(widths, target))

\* A slip: the working list is not sorted.
TargetResizeWidthsUnsorted(sizes, layout, original, display) ==
    ClampLoop(Dedup(WorkingSizes(sizes, layout, display)), 1, original, <<>>)

\* A slip: a size that reaches the display width is left out.
TargetResizeWidthsBelowDisplay(sizes, layout, original, display) ==
    ClampLoop(SelectSeq(Dedup(SortSeq(WorkingSizes(sizes, layout, display),
                                      LAMBDA a, b : a < b)),
                        LAMBDA x : x < display),
              1, original, <<>>)

\* ImageProcessor::target_resize_widths(original_width, display_width), with
\* self.config.sizes and self.config.layout_width as parameters.
TargetResizeWidths(sizes, layout, original, display) ==
    ClampLoop(Dedup(SortSeq(WorkingSizes(sizes, layout, display),
                            LAMBDA a, b : a < b)),
              1, original, <<>>)

\* The height of a variant,
\* ((target_width as f64 / width as f64) * height as f64).round().max(1.0) as u32,
\* for a width >= 1 and a height in 1..2^15 - 1.
TargetHeight(target, width, height) ==
    IF target = 0 THEN 1
    ELSE Max(F64RoundToInt(F64MulInt(F64DivInts(target, width), height)), 1)

\* The heights of the variants of the small originals, computed once (f @@ <<>>
\* is f, held as an explicit table).
SmallHeights ==
    [t \in (1..(MaxWidth + 1)) \X (1..MaxWidth) \X (1..MaxWidth) |->
        TargetHeight(t[1], t[2], t[3])] @@ <<>>

HeightOfVariant(target, width, height) ==
    IF target \in 1..(MaxWidth + 1) /\ width \in 1..MaxWidth /\ height \in 1..MaxWidth
       THEN SmallHeights[<<target, width, height>>]
       ELSE TargetHeight(target, width, height)

\* Vec::sort_by_key(|v| v.width) on a list of variants (stable).
SortByWidth(variants) == SortSeq(variants, LAMBDA a, b : a.width < b.width)

\* The variants of a ProcessedImage: one per target width, in the order of the
\* target widths, then sorted by width (process_raster and
\* try_build_processed_from_cache build the list alike).
BuildVariantList(widths, width, height) ==
    SortByWidth([i \in 1..Len(widths) |->
                    [width |-> widths[i],
                     height |-> HeightOfVariant(widths[i], width, height)]])

\* Sequences over S of length at most n.
SeqsUpTo(S, n) == UNION {[1..k -> S] : k \in 0..n}

\* Default of ImagesConfig.sizes and .layout_width.
DefaultSizes == <<480, 800, 1200>>

DefaultLayoutWidth == 1200

\* The planning example of the documentation: a 2000 pixel wide original under
\* the default configuration, displayed at the layout width.
DocumentedPlanInput ==
    [sizes |-> DefaultSizes, layout |-> DefaultLayoutWidth,
     display |-> DefaultLayoutWidth, ow |-> 2000]

PlanInputs ==
    [sizes : SeqsUpTo(0..MaxWidth, MaxSizes), layout : 0..MaxWidth,
     display : 0..MaxWidth, ow : 0..MaxWidth]
    \cup {DocumentedPlanInput}

PlannerInit ==
    /\ DispatcherIdle
    /\ CacheIdle
    /\ PipelineIdle
    /\ UnitIdle
    /\ RaceIdle
    /\ pIn \in PlanInputs
    /\ pPc = "input"
    /\ pWidths = <<>>
    /\ pHeight = 0
    /\ pVariants = <<>>

\* let target_widths = self.target_resize_widths(width, display_width);
PlanWidths ==
    /\ pPc = "input"
    /\ pWidths' = TargetResizeWidths(pIn.sizes, pIn.layout, pIn.ow, pIn.display)
    /\ pPc' = "planned"
    /\ UNCHANGED <<pIn, pHeight, pVariants, dvars, cvars, fvars, xvars>>

\* The loop over target_widths and variants.sort_by_key, for an original of
\* width pIn.ow (at least 1 where there is a width to plan) and any height.
BuildVariants ==
    /\ pPc = "planned"
    /\ \E h \in 1..MaxWidth :
          /\ pHeight' = h
          /\ pVariants' = BuildVariantList(pWidths, pIn.ow, h)
    /\ pPc' = "built"
    /\ UNCHANGED <<pIn, pWidths, dvars, cvars, fvars, xvars>>

PlannerNext == PlanWidths \/ BuildVariants

SpecPlanner == PlannerInit /\ [][PlannerNext]_vars

\* A list of numbers is strictly ascending (and so has no duplicate).
StrictlyAscending(s) == \A i \in 1..Len(s) : \A k \in 1..Len(s) : i < k => s[i] < s[k]

\* ------------------------------------------------------- original cache store

\* A file name of the cache directory, "{stem}{-n for n in suf}.{ext}": the
\* numbered copy of an original and the variant of an original both append
\* "-{number}" to the stem. ext = "" is a name with no extension.
FileName(stem, suf, ext) == [stem |-> stem, suf |-> suf, ext |-> ext]

Exists(files, name) == name \in DOMAIN files

\* fs::write(path, bytes): the file is created or replaced.
WriteFile(files, name, bytes) ==
    [n \in DOMAIN files \cup {name} |-> IF n = name THEN bytes ELSE files[n]]

\* preferred_filename: the file name of the source path, with the format's
\* extension appended when the name has none (an extension that is present is
\* kept, even when it differs). Names are already in the sanitized alphabet.
PreferredFilename(name, extension) ==
    IF name.ext # "" \/ extension = "" THEN name ELSE [name EXCEPT !.ext = extension]

\* numbered_filename(base, counter): "{stem}-{counter}.{ext}", or
\* "{stem}-{counter}" for a base with no extension.
NumberedFilename(base, counter) == [base EXCEPT !.suf = Append(base.suf, counter)]

\* The probing loop of ensure_original_cached from `counter` on: the first
\* numbered name that holds the same bytes (found) or that is free.
RECURSIVE ProbeNumbered(_, _, _, _)
ProbeNumbered(files, base, bytes, counter) ==
    LET candidate == NumberedFilename(base, counter)
    IN  IF Exists(files, candidate)
           THEN IF files[candidate] = bytes
                   THEN [path |-> candidate, found |-> TRUE]
                   ELSE ProbeNumbered(files, base, bytes, counter + 1)
           ELSE [path |-> candidate, found |-> FALSE]

\* The slot ensure_original_cached settles on for a source outside the cache
\* directory: the base name when free or equal in content, else by probing
\* from 2.
OriginalSlot(files, base, bytes) ==
    IF ~Exists(files, base) THEN [path |-> base, found |-> FALSE]
    ELSE IF files[base] = bytes THEN [path |-> base, found |-> TRUE]
    ELSE ProbeNumbered(files, base, bytes, 2)

\* A slip: the probing stops at the first numbered name, free or not.
EnsureOriginalCachedNoProbe(files, source, extension) ==
    IF source.inCache
       THEN [path |-> source.name, files |-> files]
       ELSE LET base == PreferredFilename(source.name, extension)
                slot == IF ~Exists(files, base) THEN base
                        ELSE IF files[base] = source.bytes THEN base
                        ELSE NumberedFilename(base, 2)
            IN  [path |-> slot, files |-> WriteFile(files, slot, source.bytes)]

\* A slip: the source is copied whether or not it lies under the cache
\* directory.
EnsureOriginalCachedCopies(files, source, extension) ==
    LET slot == OriginalSlot(files, PreferredFilename(source.name, extension),
                             source.bytes)
    IN  IF slot.found
           THEN [path |-> slot.path, files |-> files]
           ELSE [path |-> slot.path,
                 files |-> WriteFile(files, slot.path, source.bytes)]

\* ImageProcessor::ensure_original_cached(source, extension): the path of the
\* cached original and the cache directory afterwards. A source is
\* [name, inCache, bytes]: the file name of cached_path, whether cached_path
\* lies under the cache directory, and the bytes.
EnsureOriginalCached(files, source, extension) ==
    IF source.inCache
       THEN [path |-> source.name, files |-> files]
       ELSE LET slot == OriginalSlot(files, PreferredFilename(source.name, extension),
                                     source.bytes)
            IN  IF slot.found
                   THEN [path |-> slot.path, files |-> files]
                   ELSE [path |-> slot.path,
                         files |-> WriteFile(files, slot.path, source.bytes)]

\* The byte contents offered to the store, and the name they all come under:
\* once with an extension, once without (the format's extension is appended).
CacheContents == 1..MaxContents

CacheNames == {FileName("a", <<>>, "jpg"), FileName("a", <<>>, "")}

\* The preferred file name of every call of a run of SpecCache.
CacheBase(name) == PreferredFilename(name, "jpg")

CacheInit ==
    /\ DispatcherIdle
    /\ PlannerIdle
    /\ PipelineIdle
    /\ UnitIdle
    /\ RaceIdle
    /\ fs = <<>>
    /\ \E name \in CacheNames :
          cCall = [n |-> 0, name |-> name, bytes |-> 0, path |-> name,
                   before |-> <<>>, order |-> <<>>]

\* One ensure_original_cached call for a source outside the cache directory,
\* after the previous one returned.
CacheOriginal(bytes) ==
    LET source == [name |-> cCall.name, inCache |-> FALSE, bytes |-> bytes]
        done == EnsureOriginalCached(fs, source, "jpg")
    IN  /\ fs' = done.files
        /\ cCall' = [n |-> 1, name |-> cCall.name, bytes |-> bytes,
                     path |-> done.path, before |-> fs,
                     order |-> IF bytes \in Range(cCall.order)
                                  THEN cCall.order
                                  ELSE Append(cCall.order, bytes)]
        /\ UNCHANGED <<dvars, pvars, fvars, xvars>>

CacheNext == \E bytes \in CacheContents : CacheOriginal(bytes)

SpecCache == CacheInit /\ [][CacheNext]_vars

\* "name.ext" for i = 1 and "name-i.ext" for i > 1.
NthName(base, i) == IF i = 1 THEN base ELSE NumberedFilename(base, i)

\* ------------------------------------------------- concurrent original cache

\* The threads of a concurrent run (pages are processed by a parallel
\* iterator), each inside one ensure_original_cached call for a source outside
\* the cache directory; all sources have the preferred file name a.jpg.
Racers == 1..NumRacers

RaceBase == FileName("a", <<>>, "jpg")

\* The cache directory a concurrent run starts from: empty, or a.jpg present
\* with some content.
RaceDirs == {<<>>} \cup {WriteFile(<<>>, RaceBase, b) : b \in CacheContents}

RaceInit ==
    /\ DispatcherIdle
    /\ PlannerIdle
    /\ PipelineIdle
    /\ UnitIdle
    /\ cCall = [n |-> 0]
    /\ fs \in RaceDirs
    /\ \E bytes \in [Racers -> CacheContents] :
          racers = [th |-> [t \in Racers |->
                               [pc |-> "exists", bytes |-> bytes[t],
                                target |-> RaceBase, counter |-> 2]],
                    writes |-> <<>>]

\* The state of the threads after thread t moved to pc with the given target
\* and counter.
RaceMove(t, pc, target, counter) ==
    [racers EXCEPT !.th[t].pc = pc, !.th[t].target = target,
                   !.th[t].counter = counter]

\* if target.exists() (line 541): a free target is written next.
RaceTargetExists(t) ==
    LET me == racers.th[t]
    IN  /\ me.pc = "exists"
        /\ racers' = RaceMove(t, IF Exists(fs, me.target) THEN "read" ELSE "write",
                              me.target, me.counter)
        /\ UNCHANGED <<dvars, pvars, cvars, fvars, uCall>>

\* fs::read(&target)? == source.bytes (lines 542-544): return the target, or
\* start probing at counter 2.
RaceTargetRead(t) ==
    LET me == racers.th[t]
    IN  /\ me.pc = "read"
        /\ racers' = RaceMove(t, IF fs[me.target] = me.bytes THEN "returned" ELSE "probe",
                              me.target, 2)
        /\ UNCHANGED <<dvars, pvars, cvars, fvars, uCall>>

\* candidate_path.exists() in the loop (lines 547-549, 554-556): a free
\* candidate becomes the target.
RaceProbeExists(t) ==
    LET me == racers.th[t]
        candidate == NumberedFilename(RaceBase, me.counter)
    IN  /\ me.pc = "probe"
        /\ racers' = IF Exists(fs, candidate)
                         THEN RaceMove(t, "proberead", me.target, me.counter)
                         ELSE RaceMove(t, "write", candidate, me.counter)
        /\ UNCHANGED <<dvars, pvars, cvars, fvars, uCall>>

\* fs::read(&candidate_path)? == source.bytes (lines 550-552), else
\* counter += 1.
RaceProbeRead(t) ==
    LET me == racers.th[t]
        candidate == NumberedFilename(RaceBase, me.counter)
    IN  /\ me.pc = "proberead"
        /\ racers' = IF fs[candidate] = me.bytes
                         THEN RaceMove(t, "returned", candidate, me.counter)
                         ELSE RaceMove(t, "probe", me.target, me.counter + 1)
        /\ UNCHANGED <<dvars, pvars, cvars, fvars, uCall>>

\* A slip: the write leaves a target that exists meanwhile as it is.
RaceWriteKeeps(t) ==
    LET me == racers.th[t]
    IN  /\ me.pc = "write"
        /\ fs' = IF Exists(fs, me.target) THEN fs
                                          ELSE WriteFile(fs, me.target, me.bytes)
        /\ racers' = [RaceMove(t, "returned", me.target, me.counter)
                        EXCEPT !.writes = Append(@, t)]
        /\ UNCHANGED <<dvars, pvars, cCall, fvars, uCall>>

\* fs::write(&target, &*source.bytes)?; Ok(target) (lines 561-562). The write
\* is one step: no reader sees a file half written.
RaceWrite(t) ==
    LET me == racers.th[t]
    IN  /\ me.pc = "write"
        /\ fs' = WriteFile(fs, me.target, me.bytes)
        /\ racers' = [RaceMove(t, "returned", me.target, me.counter)
                        EXCEPT !.writes = Append(@, t)]
        /\ UNCHANGED <<dvars, pvars, cCall, fvars, uCall>>

RaceNext ==
    \E t \in Racers :
        \/ RaceTargetExists(t)
        \/ RaceTargetRead(t)
        \/ RaceProbeExists(t)
        \/ RaceProbeRead(t)
        \/ RaceWrite(t)

SpecRace == RaceInit /\ [][RaceNext]_vars

\* ----------------------------------------------------------- EXIF re-embedding

\* u16::MAX
U16Max == 65535

\* bytes[i], counted from 0 as in the source.
At(bytes, i) == bytes[i + 1]

\* Vec::drain(from..to)
Drain(bytes, from, to) ==
    SubSeq(bytes, 1, from) \o SubSeq(bytes, to + 1, Len(bytes))

\* Vec::splice(pos..pos, segment)
Splice(bytes, pos, segment) ==
    SubSeq(bytes, 1, pos) \o segment \o SubSeq(bytes, pos + 1, Len(bytes))

\* ((jpeg[p + 2] as usize) << 8) | jpeg[p + 3] as usize
SegmentLength(jpeg, p) == At(jpeg, p + 2) * 256 + At(jpeg, p + 3)

\* `as u16` of a usize, and u16::to_be_bytes.
AsU16(n) == n % (U16Max + 1)

ToBeBytes(n) == <<n \div 256, n % 256>>

\* Markers without a length field, as the first loop knows them: SOI, EOI,
\* TEM, RST0..RST7.
StandaloneMarkers == {216, 217, 1} \cup (208..215)

\* The first loop of insert_exif_segment, from position scan: the stream with
\* the first APP1 segment met before SOS drained.
RECURSIVE RemoveExistingExif(_, _)
RemoveExistingExif(jpeg, scan) ==
    IF ~(scan + 4 <= Len(jpeg) /\ At(jpeg, scan) = 255)
       THEN jpeg
       ELSE LET marker == At(jpeg, scan + 1)
                len == SegmentLength(jpeg, scan)
            IN  IF marker = 218 THEN jpeg
                ELSE IF marker = 225
                   THEN Drain(jpeg, scan, Min(scan + 2 + len, Len(jpeg)))
                ELSE IF marker \in StandaloneMarkers
                   THEN RemoveExistingExif(jpeg, scan + 2)
                ELSE IF len < 2 THEN jpeg
                ELSE RemoveExistingExif(jpeg, scan + 2 + len)

\* A slip: the position of the first segment, whatever follows.
InsertPosAtStart(jpeg, pos) == pos

\* The second loop: the position after the APPn segments at the start.
RECURSIVE InsertPos(_, _)
InsertPos(jpeg, pos) ==
    IF ~(pos + 4 <= Len(jpeg) /\ At(jpeg, pos) = 255)
       THEN pos
       ELSE LET marker == At(jpeg, pos + 1)
                len == SegmentLength(jpeg, pos)
            IN  IF marker \notin 224..239 THEN pos
                ELSE IF len < 2 THEN pos
                ELSE InsertPos(jpeg, pos + 2 + len)

\* The APP1 segment built for exif_data.
ExifSegment(exif_data) ==
    <<255, 225>> \o ToBeBytes(AsU16(Len(exif_data) + 2)) \o exif_data

\* A slip: only the length of the stream is looked at.
TooShortForSoi(jpeg) == Len(jpeg) < 2

\* jpeg.len() < 2 || jpeg[0] != 0xFF || jpeg[1] != 0xD8
NotStartingWithSoi(jpeg) == Len(jpeg) < 2 \/ At(jpeg, 0) # 255 \/ At(jpeg, 1) # 216

\* exif_data.len() + 2 > u16::MAX as usize
ExifTooLarge(n) == n + 2 > U16Max

\* insert_exif_segment(jpeg, exif_data): the stream afterwards.
InsertExifSegment(jpeg, exif_data) ==
    IF NotStartingWithSoi(jpeg) THEN jpeg
    ELSE IF ExifTooLarge(Len(exif_data)) THEN jpeg
    ELSE LET removed == RemoveExistingExif(jpeg, 2)
         IN  Splice(removed, InsertPos(removed, 2), ExifSegment(exif_data))

\* Segments of the streams insert_exif_segment is called on: a JFIF APP0, an
\* APP2 whose payload reads like an APP1 marker, an APP1 holding earlier
\* metadata, a quantisation table, the TEM marker (no length field), and the
\* SOS header with scan data and EOI.
App0 == <<255, 224, 0, 4, 74, 70>>

App2 == <<255, 226, 0, 4, 255, 225>>

App1 == <<255, 225, 0, 4, 69, 120>>

Dqt == <<255, 219, 0, 3, 7>>

Tem == <<255, 1>>

Sos == <<255, 218, 0, 2, 9, 255, 217>>

Soi == <<255, 216>>

RECURSIVE Flatten(_)
Flatten(segments) ==
    IF segments = <<>> THEN <<>> ELSE Head(segments) \o Flatten(Tail(segments))

\* Up to two APPn segments after SOI.
LeadingRuns ==
    {<<>>} \cup {<<a>> : a \in {App0, App2, App1}}
           \cup {<<a, b>> : a \in {App0, App2, App1}, b \in {App0, App2, App1}}

\* Up to two further segments before SOS, the first of them not an APPn.
FurtherRuns ==
    {<<>>} \cup {<<a>> : a \in {Dqt, Tem}}
           \cup {<<a, b>> : a \in {Dqt, Tem}, b \in {Dqt, Tem, App2, App1}}

\* Byte strings that do not start with SOI: empty, half a marker, a swapped
\* marker, EOI first, a PNG signature.
NotJpeg ==
    {<<>>, <<255>>, <<216, 255>> \o Sos, <<255, 217>> \o Sos, <<137, 80, 78, 71>>}

Ramp(n) == [i \in 1..n |-> i % 256]

\* The metadata blocks, by number: four short ones, two around the point
\* where the length field takes a second byte, and two around the limit of the
\* length field.
ExifBlocks ==
    <<<<>>, <<7>>, <<255, 218>>, <<69, 120, 105, 102, 0, 0, 77, 77>>,
      Ramp(253), Ramp(254), Ramp(U16Max - 2), Ramp(U16Max - 1)>>

ShortExif == 1..6

LongExif == 7..8

JpegArgs(lead, further, exif) ==
    [form |-> "jpeg", lead |-> lead, further |-> further,
     jpeg |-> Soi \o Flatten(lead) \o Flatten(further) \o Sos, exif |-> exif]

RawArgs(bytes, exif) ==
    [form |-> "raw", lead |-> <<>>, further |-> <<>>, jpeg |-> bytes, exif |-> exif]

InsertInputs ==
    {JpegArgs(l, f, x) : l \in LeadingRuns, f \in FurtherRuns, x \in ShortExif}
    \cup {JpegArgs(l, <<Dqt>>, x) : l \in {<<>>, <<App0>>}, x \in LongExif}
    \cup {RawArgs(b, x) : b \in NotJpeg, x \in ShortExif}

InsertInit ==
    /\ DispatcherIdle
    /\ PlannerIdle
    /\ CacheIdle
    /\ PipelineIdle
    /\ RaceIdle
    /\ \E args \in InsertInputs :
          uCall = [fn |-> "insert_exif_segment", pc |-> "called", args |-> args,
                   out |-> <<>>]

\* insert_exif_segment(&mut jpeg, &exif_bytes)
InsertCall ==
    /\ uCall.fn = "insert_exif_segment"
    /\ uCall.pc = "called"
    /\ uCall' = [uCall EXCEPT !.pc = "returned",
                              !.out = InsertExifSegment(uCall.args.jpeg,
                                                        ExifBlocks[uCall.args.exif])]
    /\ UNCHANGED <<dvars, pvars, cvars, fvars, racers>>

SpecInsert == InsertInit /\ [][InsertCall]_vars

\* insert_exif_segment(&mut jpeg, &exif_bytes) once more on the stream the first
\* call left, with the same block.
InsertAgain ==
    /\ uCall.fn = "insert_exif_segment"
    /\ uCall.pc = "returned"
    /\ uCall' = [f \in DOMAIN uCall \cup {"again"} |->
                    IF f = "pc" THEN "again"
                    ELSE IF f = "again"
                            THEN InsertExifSegment(uCall.out, ExifBlocks[uCall.args.exif])
                    ELSE uCall[f]]
    /\ UNCHANGED <<dvars, pvars, cvars, fvars, racers>>

SpecReinsert == InsertInit /\ [][InsertCall \/ InsertAgain]_vars

\* ------------------------------------------------------ orientation rewriting

\* read_u16(&bytes[p..p + 2], le)
ReadU16(bytes, p, le) ==
    IF le THEN At(bytes, p) + 256 * At(bytes, p + 1)
          ELSE 256 * At(bytes, p) + At(bytes, p + 1)

\* read_u32(&bytes[p..p + 4], le), as its upper and lower 16 bits.
ReadU32(bytes, p, le) ==
    IF le THEN [hi |-> ReadU16(bytes, p + 2, le), lo |-> ReadU16(bytes, p, le)]
          ELSE [hi |-> ReadU16(bytes, p, le), lo |-> ReadU16(bytes, p + 2, le)]

\* A slip: the value 1 written little-endian whatever the byte order.
OneLittleEndian(le) == <<1, 0>>

\* The two bytes written over the value field: 1 in the block's byte order.
OneInByteOrder(le) == IF le THEN <<1, 0>> ELSE <<0, 1>>

\* exif_bytes[p] = v[0]; exif_bytes[p + 1] = v[1]
WriteTwo(bytes, p, v) ==
    [i \in 1..Len(bytes) |-> IF i = p + 1 THEN v[1] ELSE IF i = p + 2 THEN v[2] ELSE bytes[i]]

\* The loop of normalize_exif_orientation over the declared entries, from the
\* entry at pos with `left` entries to go.
RECURSIVE NormalizeEntries(_, _, _, _)
NormalizeEntries(bytes, le, pos, left) ==
    IF left = 0 THEN bytes
    ELSE IF pos + 12 > Len(bytes) THEN bytes
    ELSE IF ReadU16(bytes, pos, le) = 274
       THEN IF pos + 8 + 2 > Len(bytes) THEN bytes
            ELSE WriteTwo(bytes, pos + 8, OneInByteOrder(le))
    ELSE NormalizeEntries(bytes, le, pos + 12, left - 1)

\* normalize_exif_orientation(exif_bytes): the block afterwards. usize has 64
\* bits, so 6 + ifd_offset does not overflow; an offset of 65536 or more lies
\* beyond every block here, which has fewer bytes than that.
NormalizeExifOrientation(bytes) ==
    IF Len(bytes) < 12 THEN bytes
    ELSE IF 6 + 8 > Len(bytes) THEN bytes
    ELSE IF SubSeq(bytes, 7, 8) \notin {<<73, 73>>, <<77, 77>>} THEN bytes
    ELSE LET le == SubSeq(bytes, 7, 8) = <<73, 73>>
             ifd_offset == ReadU32(bytes, 10, le)
             pos == 6 + ifd_offset.lo
         IN  IF ifd_offset.hi > 0 \/ pos + 2 > Len(bytes) THEN bytes
             ELSE NormalizeEntries(bytes, le, pos + 2, ReadU16(bytes, pos, le))

\* The bytes of a 16-bit and of a 32-bit value (upper and lower half) in a
\* byte order.
U16Bytes(n, le) == IF le THEN <<n % 256, n \div 256>> ELSE <<n \div 256, n % 256>>

U32Bytes(hi, lo, le) ==
    IF le THEN U16Bytes(lo, le) \o U16Bytes(hi, le)
          ELSE U16Bytes(hi, le) \o U16Bytes(lo, le)

\* A directory entry of 12 bytes: tag, type SHORT, count 1, the value in the
\* first two bytes of the value field.
IfdEntry(entry, le) ==
    U16Bytes(entry.tag, le) \o U16Bytes(3, le) \o U32Bytes(0, 1, le)
        \o U16Bytes(entry.value, le) \o <<0, 0>>

RECURSIVE IfdEntries(_, _)
IfdEntries(run, le) ==
    IF run = <<>> THEN <<>> ELSE IfdEntry(Head(run), le) \o IfdEntries(Tail(run), le)

\* Entries: Orientation (0x0112) with value 6, Make (0x010F) with a value that
\* reads like the Orientation tag, and the tag 0x1201, which reads 0x0112 in
\* the other byte order.
OrientationEntry == [tag |-> 274, value |-> 6]

EntryChoices == {OrientationEntry, [tag |-> 271, value |-> 274], [tag |-> 4609, value |-> 3]}

EntryRuns ==
    {<<>>} \cup {<<a>> : a \in EntryChoices} \cup {<<a, b>> : a \in EntryChoices, b \in EntryChoices}

\* The byte-order mark: II, MM, or neither.
ByteOrderMark(order) ==
    IF order = "II" THEN <<73, 73>> ELSE IF order = "MM" THEN <<77, 77>> ELSE <<73, 77>>

\* The declared offset of the first directory: where it is (8 + gap), past the
\* end of the block, or past 65535.
DeclaredOffset(kind, gap) ==
    IF kind = "true" THEN [hi |-> 0, lo |-> 8 + gap]
    ELSE IF kind = "beyond" THEN [hi |-> 0, lo |-> 4096]
    ELSE [hi |-> 1, lo |-> 8 + gap]

\* A metadata block: "Exif\0\0", the byte-order mark, 0x002A, the offset of the
\* first directory, gap bytes that read like the Orientation tag, the entry
\* count (the entries present and `extra` more), the entries, the offset of
\* the next directory; then the last `cut` bytes dropped.
ExifBlock(order, kind, gap, run, extra, cut) ==
    LET le == order = "II"
        offset == DeclaredOffset(kind, gap)
        whole == <<69, 120, 105, 102, 0, 0>> \o ByteOrderMark(order) \o U16Bytes(42, le)
                    \o U32Bytes(offset.hi, offset.lo, le)
                    \o SubSeq(<<18, 1>>, 1, gap)
                    \o U16Bytes(Len(run) + extra, le) \o IfdEntries(run, le)
                    \o <<0, 0, 0, 0>>
    IN  [form |-> "exif", order |-> order, offset |-> kind, gap |-> gap, run |-> run,
         count |-> Len(run) + extra,
         block |-> SubSeq(whole, 1, Len(whole) - cut)]

\* The first bytes of a well-formed block, too few for a directory.
ExifStub(n) ==
    [form |-> "stub", order |-> "II", offset |-> "true", gap |-> 0, run |-> <<>>, count |-> 0,
     block |-> SubSeq(ExifBlock("II", "true", 0, <<OrientationEntry>>, 0, 0).block, 1, n)]

NormalizeInputs ==
    {ExifBlock(order, kind, gap, run, extra, cut) :
        order \in {"II", "MM", "XX"}, kind \in {"true", "beyond", "huge"},
        gap \in {0, 2}, run \in EntryRuns, extra \in {0, 1}, cut \in {0, 5, 7}}
    \cup {ExifStub(n) : n \in {0, 6, 11, 12, 13, 14, 15, 16}}

NormalizeInit ==
    /\ DispatcherIdle
    /\ PlannerIdle
    /\ CacheIdle
    /\ PipelineIdle
    /\ RaceIdle
    /\ \E args \in NormalizeInputs :
          uCall = [fn |-> "normalize_exif_orientation", pc |-> "called", args |-> args,
                   out |-> <<>>]

\* normalize_exif_orientation(&mut exif_bytes)
NormalizeCall ==
    /\ uCall.fn = "normalize_exif_orientation"
    /\ uCall.pc = "called"
    /\ uCall' = [uCall EXCEPT !.pc = "returned",
                              !.out = NormalizeExifOrientation(uCall.args.block)]
    /\ UNCHANGED <<dvars, pvars, cvars, fvars, racers>>

SpecNormalize == NormalizeInit /\ [][NormalizeCall]_vars

\* ------------------------------------------------------------ orientation tag

\* The least and the greatest i32.
I32Max == 2147483647

I32Min == -I32Max - 1

\* The numbers an Orientation tag is tried with, by encoding. A 32-bit
\* unsigned number is kept as its upper and lower 16 bits, any other as the
\* integer it stands for.
TagNumbers(kind) ==
    IF kind = "U8" THEN (0..10) \cup {255}
    ELSE IF kind = "U16" THEN (0..10) \cup {255, 256, 32768, U16Max}
    ELSE IF kind = "I8" THEN (-3..10) \cup {-128, 127}
    ELSE IF kind = "I16" THEN (-3..10) \cup {-32768, 255, 256, 32767}
    ELSE IF kind = "I32"
       THEN (-3..10) \cup {I32Min, -65535, U16Max, I32Max}
                     \cup {65536 + k : k \in 0..9} \cup {131072 + k : k \in 0..9}
    ELSE {[hi |-> hi, lo |-> lo] : hi \in {0, 1, 2, U16Max}, lo \in (0..10) \cup {U16Max}}

NumericKinds == {"U8", "U16", "U32", "I8", "I16", "I32"}

\* TagValue: a numeric encoding with a list of one number or none, or an
\* encoding that is not an integer (Ascii).
TagValueInputs ==
    UNION {{[kind |-> kind, values |-> <<v>>] : v \in TagNumbers(kind)} : kind \in NumericKinds}
    \cup {[kind |-> kind, values |-> <<>>] : kind \in NumericKinds \cup {"Ascii"}}

\* Option<u16>
SomeU16(n) == [some |-> TRUE, v |-> n]

NoneU16 == [some |-> FALSE, v |-> 0]

\* .map(|v| if v < 0 { 0 } else { v as u16 }) on an i32: `as u16` keeps the low
\* 16 bits.
TruncatedI32(v) == IF v < 0 THEN 0 ELSE AsU16(v)

\* tag_value_to_u16(value)
TagValueToU16(value) ==
    IF value.kind \notin NumericKinds \/ value.values = <<>> THEN NoneU16
    ELSE LET v == value.values[1]
         IN  IF value.kind \in {"U16", "U8"} THEN SomeU16(v)
             ELSE IF value.kind = "U32"
                THEN SomeU16(IF v.hi > 0 THEN U16Max ELSE v.lo)
             ELSE IF value.kind = "I32" THEN SomeU16(TruncatedI32(v))
             ELSE SomeU16(IF v < 0 THEN 0 ELSE v)

\* apply_orientation(image, orientation): the transformation applied.
ApplyOrientation(orientation) ==
    IF orientation = 2 THEN "fliph"
    ELSE IF orientation = 3 THEN "rotate180"
    ELSE IF orientation = 4 THEN "flipv"
    ELSE IF orientation = 5 THEN "rotate90.fliph"
    ELSE IF orientation = 6 THEN "rotate90"
    ELSE IF orientation = 7 THEN "rotate270.fliph"
    ELSE IF orientation = 8 THEN "rotate270"
    ELSE "none"

TagValueInit ==
    /\ DispatcherIdle
    /\ PlannerIdle
    /\ CacheIdle
    /\ PipelineIdle
    /\ RaceIdle
    /\ \E value \in TagValueInputs :
          uCall = [fn |-> "tag_value_to_u16", pc |-> "called", args |-> value,
                   out |-> NoneU16, applied |-> "none"]

\* exif_orientation: tag_value_to_u16(&entry.value), and the transformation
\* apply_orientation makes of the result.
TagValueCall ==
    /\ uCall.fn = "tag_value_to_u16"
    /\ uCall.pc = "called"
    /\ LET out == TagValueToU16(uCall.args)
       IN  uCall' = [uCall EXCEPT !.pc = "returned", !.out = out,
                                  !.applied = IF out.some THEN ApplyOrientation(out.v)
                                                          ELSE "none"]
    /\ UNCHANGED <<dvars, pvars, cvars, fvars, racers>>

SpecTagValue == TagValueInit /\ [][TagValueCall]_vars

\* ------------------------------------------------------------------ pipeline

\* Metadata without an Orientation entry.
NoOrientation == [kind |-> "none", values |-> <<>>]

\* The bytes of a file. An image has the format its magic bytes show ("none":
\* no known magic), the dimensions its header gives, the value of the
\* Orientation entry of its metadata and whether a full decode succeeds.
ImageBytes(id, magic, w, h, orient, decodes) ==
    [kind |-> "image", id |-> id, magic |-> magic, w |-> w, h |-> h,
     orient |-> orient, decodes |-> decodes]

\* save_cached_dimensions writes format!("{} {}\n", width, height).
SidecarBytes(w, h) ==
    [kind |-> "dims", id |-> "dims", magic |-> "none", w |-> w, h |-> h,
     orient |-> NoOrientation, decodes |-> FALSE]

\* What generate_variant_file writes: the source resized to the job's width and
\* height, encoded in the source's format.
VariantBytes(source, job) ==
    [kind |-> "variant", id |-> source.id, magic |-> source.magic,
     w |-> job.width, h |-> job.height, orient |-> NoOrientation, decodes |-> TRUE]

\* The images a run draws its sources from: a landscape JPEG wider than some
\* configured sizes, a PNG narrower than all of them, a JPEG whose header reads
\* but whose data is cut short, and bytes that are no image at all.
ImgBig == ImageBytes("big", "jpg", 1000, 800, NoOrientation, TRUE)

ImgSmall == ImageBytes("small", "png", 300, 200, NoOrientation, TRUE)

ImgTruncated == ImageBytes("truncated", "jpg", 1000, 800, NoOrientation, FALSE)

ImgJunk == ImageBytes("junk", "none", 0, 0, NoOrientation, FALSE)

Images == {ImgBig, ImgSmall, ImgTruncated, ImgJunk}

\* Two more originals: a strip of 704 x 11 and a column of 11 x 704.
ImgStrip == ImageBytes("strip", "jpg", 704, 11, NoOrientation, TRUE)

ImgColumn == ImageBytes("column", "jpg", 11, 704, NoOrientation, TRUE)

\* The references of a run: local files a.jpg and a.png (outside the cache
\* directory), and the URLs .../a.jpg and .../a.
LocalRefs ==
    {[remote |-> FALSE, name |-> FileName("a", <<>>, ext)] : ext \in {"jpg", "png"}}

RemoteRefs ==
    {[remote |-> TRUE, name |-> FileName("a", <<>>, ext)] : ext \in {"jpg", ""}}

\* What the world answers to one call: the bytes of the local file or that it
\* cannot be read; a transport error, or a response with a status and a body.
LocalEnvs == {[kind |-> "missing"]} \cup {[kind |-> "file", bytes |-> b] : b \in Images}

RemoteEnvs ==
    {[kind |-> "neterr"]}
    \cup {[kind |-> "http", status |-> 404, bytes |-> ImgJunk]}
    \cup {[kind |-> "http", status |-> 200, bytes |-> b] : b \in Images}

\* image_format_from_extension
ImageFormatFromExtension(ext) ==
    IF ext \in {"jpg", "jpeg"} THEN "jpg"
    ELSE IF ext \in {"png", "webp"} THEN ext
    ELSE "unsupported"

\* detect_format(reference, bytes): SVG by extension or root tag, else the
\* magic bytes, else the extension of the reference, else UnsupportedFormat.
DetectFormat(refExt, bytes) ==
    IF refExt = "svg" \/ bytes.magic = "svg" THEN "svg"
    ELSE IF bytes.magic # "none" THEN bytes.magic
    ELSE ImageFormatFromExtension(refExt)

\* extension_for_format ("none": no extension, UnsupportedFormat)
ExtensionForFormat(format) ==
    IF format \in {"jpg", "png", "webp"} THEN format ELSE "none"

\* dimension_cache_path: original_path.with_extension("txt")
DimensionCachePath(original) == [original EXCEPT !.ext = "txt"]

\* load_cached_dimensions: the sidecar is read and parsed as two numbers.
LoadCachedDimensions(files, original) ==
    LET sidecar == DimensionCachePath(original)
    IN  IF Exists(files, sidecar) /\ files[sidecar].kind = "dims"
           THEN [ok |-> TRUE, w |-> files[sidecar].w, h |-> files[sidecar].h]
           ELSE [ok |-> FALSE, w |-> 0, h |-> 0]

\* format!("{}-{}.{}", original_stem, target_width, extension)
VariantName(original, width, extension) ==
    [stem |-> original.stem, suf |-> Append(original.suf, width), ext |-> extension]

\* compute_display_dimensions(width, height, layout_limit) for integer width
\* and height (u32 as f64), in f64 arithmetic: the ratio is rounded, and so is
\* its product or quotient with the capped side.
ComputeDisplayDimensions(w, h, layoutLimit) ==
    LET layout == Max(layoutLimit, 1)
        ow == IF w > 0 THEN w ELSE layout
        oh == IF h > 0 THEN h ELSE layout
        maxHeight == Min(layout, oh)
        wideWidth == Min(ow, 2 * layout)
        width == Min(layout, ow)
    IN  The({IF F64BelowOne(ratio)
                THEN [width |-> Max(F64RoundToInt(F64Max1(F64MulInt(ratio, maxHeight))), 1),
                      height |-> Max(maxHeight, 1), wide |-> FALSE]
             ELSE IF F64AtLeastTwo(ratio)
                THEN [width |-> Max(wideWidth, 1),
                      height |-> Max(F64RoundToInt(F64Max1(F64IntDiv(wideWidth, ratio))), 1),
                      wide |-> TRUE]
             ELSE [width |-> Max(width, 1),
                   height |-> Max(F64RoundToInt(F64Max1(F64IntDiv(width, ratio))), 1),
                   wide |-> FALSE] :
                ratio \in {F64DivInts(ow, oh)}})

\* The dimensions an original can have: those of Images, of the strip and of
\* the column, as probed and with width and height exchanged.
SourceSizes ==
    {<<b.w, b.h>> : b \in Images \cup {ImgStrip, ImgColumn}}
    \cup {<<b.h, b.w>> : b \in Images \cup {ImgStrip, ImgColumn}}

\* compute_display_dimensions(width as f64, height as f64, layout_width) of
\* process_raster and try_build_processed_from_cache, for each of SourceSizes.
DisplayAtLayoutWidth ==
    [s \in SourceSizes |-> ComputeDisplayDimensions(s[1], s[2], DefaultLayoutWidth)] @@ <<>>

\* The width and height of the variants planned for an original of the given
\* dimensions, in the order of the target widths (the configuration is the
\* default one).
PlanVariantSizes(width, height) ==
    LET display == DisplayAtLayoutWidth[<<width, height>>]
        widths == TargetResizeWidths(DefaultSizes, DefaultLayoutWidth, width,
                                     display.width)
    IN  [i \in 1..Len(widths) |->
            [width |-> widths[i],
             height |-> TargetHeight(widths[i], width, height)]]

\* PlanVariantSizes for each of SourceSizes, computed once.
VariantSizesOf == [s \in SourceSizes |-> PlanVariantSizes(s[1], s[2])] @@ <<>>

\* format!("{}-{}.{}", original_stem, target_width, extension) for each of the
\* sizes.
WithVariantPaths(sizes, original, extension) ==
    [i \in 1..Len(sizes) |->
        [width |-> sizes[i].width,
         height |-> sizes[i].height,
         path |-> VariantName(original, sizes[i].width, extension)]]

\* The VariantSpecs planned for an original: the sizes and the paths.
PlanVariantSpecs(original, width, height, extension) ==
    WithVariantPaths(VariantSizesOf[<<width, height>>], original, extension)

PathsOf(specs) == {specs[i].path : i \in 1..Len(specs)}

\* What one process() call comes to: the error kind or "ok", the route taken,
\* the cache directory afterwards, the VariantJobs handed to the dispatcher,
\* the variants of the ProcessedImage, and the path and dimensions of the
\* original.
Outcome(outcome, route, files, batch, variants, original, width, height) ==
    [outcome |-> outcome, route |-> route, files |-> files, batch |-> batch,
     variants |-> variants, original |-> original, width |-> width,
     height |-> height]

\* An outcome with the display_width, display_height and is_wide of the
\* ProcessedImage.
Displayed(outcome, display) ==
    [f \in DOMAIN outcome \cup {"display"} |->
        IF f = "display" THEN display ELSE outcome[f]]

\* A slip: the call fails after it has handed a variant to the dispatcher.
FailureAfterDispatch(outcome, route, files) ==
    Outcome(outcome, route, files,
            <<[width |-> 480, height |-> 384, path |-> FileName("a", <<480>>, "jpg")]>>,
            <<>>, FileName("", <<>>, ""), 0, 0)

Failure(outcome, route, files) ==
    Outcome(outcome, route, files, <<>>, <<>>, FileName("", <<>>, ""), 0, 0)

\* try_build_processed_from_cache: the ProcessedImage from the sidecar's
\* dimensions, when the sidecar parses and every planned variant file exists.
TryBuildProcessedFromCache(files, original, extension) ==
    LET dims == LoadCachedDimensions(files, original)
        specs == PlanVariantSpecs(original, dims.w, dims.h, extension)
    IN  IF ~dims.ok \/ \E i \in 1..Len(specs) : ~Exists(files, specs[i].path)
           THEN [hit |-> FALSE, variants |-> <<>>, width |-> 0, height |-> 0]
           ELSE [hit |-> TRUE, variants |-> SortByWidth(specs),
                 width |-> dims.w, height |-> dims.h]

\* A slip: every planned variant is scheduled, present or not.
ResizeJobsAll(files, specs) == specs

\* The loop of process_raster over the target widths: a VariantJob for each
\* planned variant whose file does not exist.
ResizeJobs(files, specs) == SelectSeq(specs, LAMBDA v : ~Exists(files, v.path))

\* Whether the header of an image file reads: GifDecoder::new,
\* image::image_dimensions.
HeaderReads(bytes) == bytes.kind # "dims" /\ bytes.magic # "none"

\* process_gif: the dimensions are read, the original is cached, no variant.
ProcessGif(files, source) ==
    IF ~HeaderReads(source.bytes)
       THEN Failure("decode", "gif", files)
       ELSE LET cached == EnsureOriginalCached(files, source, "gif")
            IN  Displayed(Outcome("ok", "gif", cached.files, <<>>, <<>>, cached.path,
                                  Max(source.bytes.w, 1), Max(source.bytes.h, 1)),
                          ComputeDisplayDimensions(Max(source.bytes.w, 1),
                                                   Max(source.bytes.h, 1),
                                                   DefaultLayoutWidth))

\* The display dimensions process_svg computes from the estimated dimensions
\* w and h (0: none): dimensions below the layout width are scaled up until the
\* larger one is the layout width.
SvgDisplayDimensions(w, h, layout) ==
    IF w > 0 /\ h > 0 /\ Max(w, h) < layout
       THEN IF w < h
               THEN [width |-> Max(RoundDiv(layout * w, h), 1), height |-> layout]
               ELSE [width |-> layout, height |-> Max(RoundDiv(layout * h, w), 1)]
       ELSE LET display == ComputeDisplayDimensions(w, h, layout)
            IN  [width |-> display.width, height |-> display.height]

\* process_svg: the original is cached, no variant.
ProcessSvg(files, source) ==
    LET cached == EnsureOriginalCached(files, source, "svg")
        display == SvgDisplayDimensions(source.bytes.w, source.bytes.h,
                                        DefaultLayoutWidth)
    IN  Outcome("ok", "svg", cached.files, <<>>, <<>>, cached.path,
                Max(display.width, 1), Max(display.height, 1))

\* exif_orientation(&exif_data) of the metadata parsed from the bytes.
ExifOrientation(bytes) == TagValueToU16(bytes.orient)

\* process_raster(source, format)
ProcessRaster(files, source, format) ==
    IF format = "gif" THEN ProcessGif(files, source)
    ELSE IF ExtensionForFormat(format) = "none" THEN Failure("unsupported", "none", files)
    ELSE
    LET extension == ExtensionForFormat(format)
        cached == EnsureOriginalCached(files, source, extension)
        fast == TryBuildProcessedFromCache(cached.files, cached.path, extension)
        \* image::image_dimensions(&original_path) reads the cached file
        header == cached.files[cached.path]
        original_orientation == ExifOrientation(source.bytes)
        swap == original_orientation.some /\ original_orientation.v \in 5..8
        width == IF swap THEN header.h ELSE header.w
        height == IF swap THEN header.w ELSE header.h
        withDims == WriteFile(cached.files, DimensionCachePath(cached.path),
                              SidecarBytes(width, height))
        specs == PlanVariantSpecs(cached.path, width, height, extension)
    IN  IF fast.hit
           THEN Displayed(Outcome("ok", "fast", cached.files, <<>>, fast.variants,
                                  cached.path, fast.width, fast.height),
                          DisplayAtLayoutWidth[<<fast.width, fast.height>>])
        ELSE IF ~HeaderReads(header)
           THEN Failure("decode", "full", cached.files)
        ELSE Displayed(Outcome("ok", "full", withDims, ResizeJobs(withDims, specs),
                               SortByWidth(specs), cached.path, width, height),
                       DisplayAtLayoutWidth[<<width, height>>])

\* A SourceImage: the file name of cached_path, whether cached_path lies under
\* the cache directory, the bytes, the format, and how many network requests
\* loading it took.
Loaded(outcome, files, name, inCache, bytes, format, net) ==
    [outcome |-> outcome, files |-> files, net |-> net,
     source |-> [name |-> name, inCache |-> inCache, bytes |-> bytes],
     format |-> format]

\* read_local
ReadLocal(files, ref, env) ==
    IF env.kind = "missing"
       THEN Loaded("io", files, ref.name, FALSE, NoBytes, "unsupported", 0)
       ELSE LET format == DetectFormat(ref.name.ext, env.bytes)
            IN  Loaded(IF format = "unsupported" THEN "unsupported" ELSE "ok",
                       files, ref.name, FALSE, env.bytes, format, 0)

\* push_unique_name over a list of names
RECURSIVE UniqueNames(_)
UniqueNames(names) ==
    IF names = <<>> THEN <<>>
    ELSE LET front == UniqueNames(SubSeq(names, 1, Len(names) - 1))
             name == names[Len(names)]
         IN  IF name \in Range(front) THEN front ELSE Append(front, name)

\* remote_cache_candidates: the canonical name, the sanitized base name and the
\* stem of the canonical name (the base name of a modelled URL carries the
\* URL's extension, so the first two agree).
RemoteCacheCandidates(ref) ==
    UniqueNames(<<ref.name, ref.name, [ref.name EXCEPT !.ext = ""]>>)

\* try_load_cached_remote: the first candidate that exists, 0 when none does.
FirstCached(files, candidates) ==
    LET hits == {i \in 1..Len(candidates) : Exists(files, candidates[i])}
    IN  IF hits = {} THEN 0 ELSE CHOOSE i \in hits : \A k \in hits : i <= k

\* A slip: the body is written to the cache before the status is looked at.
FetchRemoteWriteFirst(files, ref, env) ==
    LET candidates == RemoteCacheCandidates(ref)
        primary == candidates[1]
        hit == FirstCached(files, candidates)
    IN  IF hit # 0
           THEN LET bytes == files[candidates[hit]]
                    format == DetectFormat(ref.name.ext, bytes)
                IN  Loaded(IF format = "unsupported" THEN "unsupported" ELSE "ok",
                           files, candidates[hit], TRUE, bytes, format, 0)
        ELSE IF env.kind = "neterr"
           THEN Loaded("network", files, primary, TRUE, NoBytes, "unsupported", 1)
        ELSE IF env.status >= 400
           THEN Loaded("network", WriteFile(files, primary, env.bytes), primary, TRUE,
                       NoBytes, "unsupported", 1)
        ELSE LET format == DetectFormat(ref.name.ext, env.bytes)
             IN  Loaded(IF format = "unsupported" THEN "unsupported" ELSE "ok",
                        WriteFile(files, primary, env.bytes), primary, TRUE,
                        env.bytes, format, 1)

\* A slip: the cache is not consulted, every call fetches.
FetchRemoteAlways(files, ref, env) ==
    LET primary == RemoteCacheCandidates(ref)[1]
    IN  IF env.kind = "neterr" \/ env.status >= 400
           THEN Loaded("network", files, primary, TRUE, NoBytes, "unsupported", 1)
           ELSE LET format == DetectFormat(ref.name.ext, env.bytes)
                IN  Loaded(IF format = "unsupported" THEN "unsupported" ELSE "ok",
                           WriteFile(files, primary, env.bytes), primary, TRUE,
                           env.bytes, format, 1)

\* fetch_remote: a cached candidate when one exists, else one GET; a transport
\* error or a status of 400 and above is ImageError::Network; the body is
\* written to the primary candidate before its format is detected.
FetchRemote(files, ref, env) ==
    LET candidates == RemoteCacheCandidates(ref)
        primary == candidates[1]
        hit == FirstCached(files, candidates)
    IN  IF hit # 0
           THEN LET bytes == files[candidates[hit]]
                    format == DetectFormat(ref.name.ext, bytes)
                IN  Loaded(IF format = "unsupported" THEN "unsupported" ELSE "ok",
                           files, candidates[hit], TRUE, bytes, format, 0)
        ELSE IF env.kind = "neterr" \/ env.status >= 400
           THEN Loaded("network", files, primary, TRUE, NoBytes, "unsupported", 1)
        ELSE LET format == DetectFormat(ref.name.ext, env.bytes)
             IN  Loaded(IF format = "unsupported" THEN "unsupported" ELSE "ok",
                        WriteFile(files, primary, env.bytes), primary, TRUE,
                        env.bytes, format, 1)

\* load_source
LoadSource(files, ref, env) ==
    IF ref.remote THEN FetchRemote(files, ref, env) ELSE ReadLocal(files, ref, env)

\* process(reference, asset_root), up to the call of the dispatcher.
ProcessCall(files, ref, env) ==
    LET loaded == LoadSource(files, ref, env)
    IN  IF loaded.outcome # "ok"
           THEN Failure(loaded.outcome, "none", loaded.files)
        ELSE IF loaded.format = "svg"
           THEN ProcessSvg(loaded.files, loaded.source)
        ELSE ProcessRaster(loaded.files, loaded.source, loaded.format)

\* The job slot the next spawn takes.
FreeSlot == CHOOSE j \in Jobs : jpc[j] = "unspawned" /\ \A i \in Jobs : i < j => jpc[i] # "unspawned"

\* One process() call, from load_source to its return: the files it writes,
\* and schedule_resize_generation -> ResizeDispatcher::spawn when the batch is
\* not empty (fetch_add, then the closure is queued).
Process(ref, env) ==
    /\ calls < MaxCalls
    /\ \E loaded \in {LoadSource(fs, ref, env)} :
       \E done \in {ProcessCall(fs, ref, env)} :
        /\ calls' = calls + 1
        /\ fs' = done.files
        /\ IF done.batch # <<>>
              THEN /\ \E j \in Jobs : jpc[j] = "unspawned"
                   /\ pending' = (pending + 1) % UsizeModulus
                   /\ jpc' = [jpc EXCEPT ![FreeSlot] = "queued"]
                   /\ jobBatch' = [jobBatch EXCEPT ![FreeSlot] = done.batch]
                   /\ jobSrc' = [jobSrc EXCEPT ![FreeSlot] = loaded.source.bytes]
                   /\ jobLog' = [jobLog EXCEPT ![FreeSlot].handed = PathsOf(done.batch)]
              ELSE UNCHANGED <<pending, jpc, jobBatch, jobSrc, jobLog>>
        /\ advertised' = advertised \cup PathsOf(done.variants)
        /\ last' = [n |-> calls + 1, ref |-> ref, env |-> env,
                    loaded |-> loaded.outcome,
                    outcome |-> done.outcome,
                    route |-> done.route,
                    net |-> loaded.net,
                    refetch |-> /\ last.n > 0
                                /\ last.ref = ref
                                /\ last.outcome = "network",
                    bytes |-> IF loaded.outcome = "ok" THEN loaded.source.bytes
                                                       ELSE NoBytes,
                    original |-> done.original,
                    width |-> done.width,
                    height |-> done.height,
                    extension |-> ExtensionForFormat(loaded.format),
                    planned |-> PathsOf(done.variants),
                    batch |-> PathsOf(done.batch),
                    spawned |-> IF done.batch # <<>> THEN 1 ELSE 0,
                    before |-> fs,
                    entry |-> loaded.files,
                    after |-> done.files]
        /\ UNCHANGED <<lockOwner, wpc, mustFinish, parked, failedPaths, owed,
                       cCall, pvars, xvars>>

\* A slip: a failed decode is logged and the job goes on to its variants.
JobDecodeGoesOn(j) ==
    /\ jpc[j] = "queued"
    /\ jpc' = [jpc EXCEPT ![j] = "writing"]
    /\ jobLog' = [jobLog EXCEPT ![j].decoded = IF jobSrc[j].decodes THEN "ok" ELSE "failed"]
    /\ UNCHANGED <<jobBatch, failedPaths>>
    /\ UNCHANGED <<pending, lockOwner, wpc, mustFinish, parked, fs, cCall, pvars,
                   calls, last, jobSrc, advertised, owed, xvars>>

\* The closure of schedule_resize_generation: image::load_from_memory and
\* apply_orientation; a failed decode is logged and ends the job.
JobDecode(j) ==
    /\ jpc[j] = "queued"
    /\ IF jobSrc[j].decodes
          THEN /\ jpc' = [jpc EXCEPT ![j] = "writing"]
               /\ jobLog' = [jobLog EXCEPT ![j].decoded = "ok"]
               /\ UNCHANGED <<jobBatch, failedPaths>>
          ELSE /\ jpc' = [jpc EXCEPT ![j] = "finishing"]
               /\ jobLog' = [jobLog EXCEPT ![j].decoded = "failed"]
               /\ failedPaths' = failedPaths \cup PathsOf(jobBatch[j])
               /\ jobBatch' = [jobBatch EXCEPT ![j] = <<>>]
    /\ UNCHANGED <<pending, lockOwner, wpc, mustFinish, parked, fs, cCall, pvars,
                   calls, last, jobSrc, advertised, owed, xvars>>

\* The state of a job after it dealt with the head of its batch.
AfterVariant(j) ==
    /\ jobBatch' = [jobBatch EXCEPT ![j] = Tail(jobBatch[j])]
    /\ jpc' = [jpc EXCEPT ![j] = IF Len(jobBatch[j]) = 1 THEN "finishing" ELSE "writing"]
    /\ UNCHANGED <<pending, lockOwner, wpc, mustFinish, parked, cCall, pvars,
                   calls, last, jobSrc, advertised, owed, xvars>>

\* generate_variant_file for the next VariantJob of the batch: resize, encode,
\* fs::write.
JobWriteVariant(j) ==
    /\ jpc[j] = "writing"
    /\ jobBatch[j] # <<>>
    /\ fs' = WriteFile(fs, Head(jobBatch[j]).path, VariantBytes(jobSrc[j], Head(jobBatch[j])))
    /\ jobLog' = [jobLog EXCEPT ![j].attempted = @ \cup {Head(jobBatch[j]).path}]
    /\ UNCHANGED failedPaths
    /\ AfterVariant(j)

\* A slip: the first failed variant ends the loop over the batch.
JobVariantFailsAborts(j) ==
    /\ jpc[j] = "writing"
    /\ jobBatch[j] # <<>>
    /\ failedPaths' = failedPaths \cup {Head(jobBatch[j]).path}
    /\ jobLog' = [jobLog EXCEPT ![j].attempted = @ \cup {Head(jobBatch[j]).path},
                                 ![j].failed = @ \cup {Head(jobBatch[j]).path}]
    /\ jobBatch' = [jobBatch EXCEPT ![j] = <<>>]
    /\ jpc' = [jpc EXCEPT ![j] = "finishing"]
    /\ UNCHANGED <<pending, lockOwner, wpc, mustFinish, parked, fs, cCall, pvars,
                   calls, last, jobSrc, advertised, owed, xvars>>

\* generate_variant_file fails (encoding, or the write): logged, and the loop
\* goes on with the next VariantJob.
JobVariantFails(j) ==
    /\ jpc[j] = "writing"
    /\ jobBatch[j] # <<>>
    /\ failedPaths' = failedPaths \cup {Head(jobBatch[j]).path}
    /\ jobLog' = [jobLog EXCEPT ![j].attempted = @ \cup {Head(jobBatch[j]).path},
                                 ![j].failed = @ \cup {Head(jobBatch[j]).path}]
    /\ UNCHANGED fs
    /\ AfterVariant(j)

\* The build driver calls wait_for_pending_resizes(): it is the first of the
\* waiting threads, and the only one of a run of the pipeline.
DriverWaits(w) ==
    /\ wpc[w] = "idle"
    /\ \A v \in Waiters : w <= v
    /\ wpc' = [wpc EXCEPT ![w] = "locking"]
    /\ owed' = advertised
    /\ UNCHANGED <<pending, lockOwner, jpc, mustFinish, parked, pvars, cvars,
                   calls, last, jobBatch, jobSrc, failedPaths, advertised, jobLog,
                   xvars>>

Init ==
    DispatcherIdle /\ PlannerIdle /\ CacheIdle /\ PipelineIdle /\ UnitIdle /\ RaceIdle

Next ==
    \/ \E ref \in LocalRefs : \E env \in LocalEnvs : Process(ref, env)
    \/ \E ref \in RemoteRefs : \E env \in RemoteEnvs : Process(ref, env)
    \/ \E j \in Jobs : JobDecode(j)
    \/ \E j \in Jobs : JobWriteVariant(j)
    \/ \E j \in Jobs : JobVariantFails(j)
    \/ \E j \in Jobs : JobFinished(j)
    \/ \E j \in Jobs : JobNotify(j)
    \/ \E w \in Waiters : DriverWaits(w)
    \/ \E w \in Waiters : WaitProgress(w)
    \/ \E w \in Waiters : WaitSpurious(w)

Spec == Init /\ [][Next]_vars

\* ------------------------------------------------------- oriented originals

\* The sources process_raster is tried on: a local JPEG of 1000 x 800 and a
\* local PNG of 300 x 200, each with every Orientation entry of
\* TagValueInputs, or with none.
OrientedSources ==
    {[format |-> b.magic,
      source |-> [name |-> FileName("a", <<>>, b.magic), inCache |-> FALSE,
                  bytes |-> ImageBytes(b.id, b.magic, b.w, b.h, tag, TRUE)]] :
        b \in {ImgBig, ImgSmall}, tag \in TagValueInputs \cup {NoOrientation}}

RasterInit ==
    /\ DispatcherIdle
    /\ PlannerIdle
    /\ CacheIdle
    /\ PipelineIdle
    /\ RaceIdle
    /\ \E args \in OrientedSources :
          uCall = [fn |-> "process_raster", pc |-> "called", args |-> args,
                   out |-> Failure("none", "none", <<>>)]

\* self.process_raster(source, format), the cache directory empty.
RasterCall ==
    /\ uCall.fn = "process_raster"
    /\ uCall.pc = "called"
    /\ uCall' = [uCall EXCEPT !.pc = "returned",
                              !.out = ProcessRaster(<<>>, uCall.args.source,
                                                    uCall.args.format)]
    /\ UNCHANGED <<dvars, pvars, cvars, fvars, racers>>

SpecRaster == RasterInit /\ [][RasterCall]_vars

\* ------------------------------------------------------------ format detection

\* Text is a list of characters, bytes a list of characters and of named
\* bytes ("0xFF").
UpperCase == <<"A", "B", "C", "D", "E", "F", "G", "H", "I", "J", "K", "L", "M",
               "N", "O", "P", "Q", "R", "S", "T", "U", "V", "W", "X", "Y", "Z">>

LowerCase == <<"a", "b", "c", "d", "e", "f", "g", "h", "i", "j", "k", "l", "m",
               "n", "o", "p", "q", "r", "s", "t", "u", "v", "w", "x", "y", "z">>

\* str::to_ascii_lowercase; on the bytes of the head, String::to_lowercase
\* after from_utf8_lossy, which changes no other byte into '<', 's', 'v', 'g'.
ToAsciiLowercase(text) ==
    [i \in 1..Len(text) |->
        IF \E k \in 1..26 : UpperCase[k] = text[i]
           THEN LowerCase[CHOOSE k \in 1..26 : UpperCase[k] = text[i]]
           ELSE text[i]]

\* str::ends_with
EndsWith(text, suffix) ==
    /\ Len(text) >= Len(suffix)
    /\ SubSeq(text, Len(text) - Len(suffix) + 1, Len(text)) = suffix

\* str::starts_with, <[u8]>::starts_with
StartsWith(text, prefix) ==
    /\ Len(text) >= Len(prefix)
    /\ SubSeq(text, 1, Len(prefix)) = prefix

\* str::contains
Contains(text, needle) ==
    \E i \in 0..(Len(text) - Len(needle)) : SubSeq(text, i + 1, i + Len(needle)) = needle

\* u8::is_ascii_whitespace
IsAsciiWhitespace(c) == c \in {" ", "\t", "\n", "\f", "\r"}

\* .skip_while(|b| b.is_ascii_whitespace())
SkipWhitespace(bytes) ==
    LET first == IF \A i \in 1..Len(bytes) : IsAsciiWhitespace(bytes[i])
                    THEN Len(bytes) + 1
                    ELSE CHOOSE i \in 1..Len(bytes) :
                            /\ ~IsAsciiWhitespace(bytes[i])
                            /\ \A j \in 1..(i - 1) : IsAsciiWhitespace(bytes[j])
    IN  SubSeq(bytes, first, Len(bytes))

\* .take(n)
Take(bytes, n) == SubSeq(bytes, 1, Min(n, Len(bytes)))

\* The number of bytes looks_like_svg looks at.
SvgHeadLength == 512

SvgExtension == <<".", "s", "v", "g">>

SvgRootTag == <<"<", "s", "v", "g">>

\* looks_like_svg(reference, bytes)
LooksLikeSvg(reference, bytes) ==
    \/ EndsWith(ToAsciiLowercase(reference), SvgExtension)
    \/ Contains(ToAsciiLowercase(Take(SkipWhitespace(bytes), SvgHeadLength)), SvgRootTag)

\* The signatures image::guess_format knows, as far as the inputs have them.
JpegMagic == <<"0xFF", "0xD8", "0xFF">>

PngMagic == <<"0x89", "P", "N", "G">>

GifMagic == <<"G", "I", "F", "8", "9", "a">>

\* image::guess_format(bytes) ("none": Err)
GuessFormat(bytes) ==
    IF StartsWith(bytes, JpegMagic) THEN "jpg"
    ELSE IF StartsWith(bytes, PngMagic) THEN "png"
    ELSE IF StartsWith(bytes, GifMagic) THEN "gif"
    ELSE "none"

\* The text before the first c, and the text after the last c (all of it when
\* there is none).
BeforeFirst(text, c) ==
    IF \E i \in 1..Len(text) : text[i] = c
       THEN SubSeq(text, 1, (CHOOSE i \in 1..Len(text) :
                                /\ text[i] = c
                                /\ \A j \in 1..(i - 1) : text[j] # c) - 1)
       ELSE text

AfterLast(text, c) ==
    IF \E i \in 1..Len(text) : text[i] = c
       THEN SubSeq(text, (CHOOSE i \in 1..Len(text) :
                             /\ text[i] = c
                             /\ \A j \in (i + 1)..Len(text) : text[j] # c) + 1, Len(text))
       ELSE text

\* path_extension_from_str(s): Path::extension of the text before '?', the
\* part of the last component after its last dot, when that dot is not its
\* first character (<<>>: None, also for an empty extension).
PathExtensionFromStr(s) ==
    LET name == AfterLast(BeforeFirst(s, "?"), "/")
        ext == AfterLast(name, ".")
    IN  IF ~(\E i \in 2..Len(name) : name[i] = ".") THEN <<>> ELSE ext

\* image_format_from_extension on text ("unsupported": None)
ImageFormatFromExtensionStr(ext) ==
    LET lower == ToAsciiLowercase(ext)
    IN  IF lower \in {<<"j", "p", "g">>, <<"j", "p", "e", "g">>} THEN "jpg"
        ELSE IF lower = <<"p", "n", "g">> THEN "png"
        ELSE IF lower = <<"w", "e", "b", "p">> THEN "webp"
        ELSE "unsupported"

\* A slip: the magic bytes are looked at before the SVG test.
DetectFormatMagicFirst(reference, bytes) ==
    IF GuessFormat(bytes) # "none" THEN GuessFormat(bytes)
    ELSE IF LooksLikeSvg(reference, bytes) THEN "svg"
    ELSE IF PathExtensionFromStr(reference) # <<>>
       THEN ImageFormatFromExtensionStr(PathExtensionFromStr(reference))
    ELSE "unsupported"

\* detect_format(reference, bytes) on text ("unsupported": UnsupportedFormat)
DetectFormatStr(reference, bytes) ==
    IF LooksLikeSvg(reference, bytes) THEN "svg"
    ELSE IF GuessFormat(bytes) # "none" THEN GuessFormat(bytes)
    ELSE IF PathExtensionFromStr(reference) # <<>>
       THEN ImageFormatFromExtensionStr(PathExtensionFromStr(reference))
    ELSE "unsupported"

\* References: a stem (one with a dot in a directory name), an extension as
\* written (none, a bare dot, SVG in three spellings, codecs, others), and a
\* query (none, plain, ending in .svg, ending in .jpg). `codec` is the codec
\* of the extension, `svg` whether the extension is .svg.
RefStems == {<<"a">>, <<"h", ".", "i", "o", "/", "a">>}

RefExtensions ==
    {[text |-> <<>>, codec |-> "unsupported", svg |-> FALSE],
     [text |-> <<".">>, codec |-> "unsupported", svg |-> FALSE],
     [text |-> <<".", "s", "v", "g">>, codec |-> "unsupported", svg |-> TRUE],
     [text |-> <<".", "S", "V", "G">>, codec |-> "unsupported", svg |-> TRUE],
     [text |-> <<".", "S", "v", "g">>, codec |-> "unsupported", svg |-> TRUE],
     [text |-> <<".", "j", "p", "g">>, codec |-> "jpg", svg |-> FALSE],
     [text |-> <<".", "J", "P", "E", "G">>, codec |-> "jpg", svg |-> FALSE],
     [text |-> <<".", "P", "n", "g">>, codec |-> "png", svg |-> FALSE],
     [text |-> <<".", "w", "e", "b", "p">>, codec |-> "webp", svg |-> FALSE],
     [text |-> <<".", "g", "i", "f">>, codec |-> "unsupported", svg |-> FALSE],
     [text |-> <<".", "s", "v", "g", "z">>, codec |-> "unsupported", svg |-> FALSE]}

RefQueries ==
    {[text |-> <<>>, none |-> TRUE, svg |-> FALSE],
     [text |-> <<"?", "v", "=", "1">>, none |-> FALSE, svg |-> FALSE],
     [text |-> <<"?", "f", "=", "a", ".", "S", "V", "G">>, none |-> FALSE, svg |-> TRUE],
     [text |-> <<"?", "f", "=", "a", ".", "j", "p", "g">>, none |-> FALSE, svg |-> FALSE]}

\* Contents: leading whitespace, a signature, filler, the SVG root tag in some
\* spelling, a tail. `magic` is the signature, `lead` the whitespace, `fill`
\* the length of the filler, `tag` whether the root tag is there.
Whitespaces == {<<>>, <<" ">>, <<"\n", "\t", "\r">>}

Signatures ==
    {[text |-> <<>>, magic |-> "none"], [text |-> JpegMagic, magic |-> "jpg"],
     [text |-> PngMagic, magic |-> "png"], [text |-> GifMagic, magic |-> "gif"]}

Fillers == {0, SvgHeadLength - 8, SvgHeadLength - 4, SvgHeadLength - 3}

RootTags == {<<>>, <<"<", "s", "v", "g">>, <<"<", "S", "V", "G">>, <<"<", "s", "v", " ", "g">>}

DetectArgs(stem, ext, query, lead, sig, fill, tag) ==
    [reference |-> stem \o ext.text \o query.text,
     bytes |-> lead \o sig.text \o [i \in 1..fill |-> "x"] \o tag \o <<">", "\n">>,
     endsInSvg |-> (query.none /\ ext.svg) \/ query.svg,
     codec |-> ext.codec,
     magic |-> IF lead = <<>> THEN sig.magic ELSE "none",
     tagEnd |-> IF tag \in {<<"<", "s", "v", "g">>, <<"<", "S", "V", "G">>}
                   THEN Len(sig.text) + fill + 4
                   ELSE 0]

DetectInputs ==
    {DetectArgs(stem, ext, query, lead, sig, fill, tag) :
        stem \in RefStems, ext \in RefExtensions, query \in RefQueries,
        lead \in Whitespaces, sig \in Signatures, fill \in Fillers, tag \in RootTags}

DetectInit ==
    /\ DispatcherIdle
    /\ PlannerIdle
    /\ CacheIdle
    /\ PipelineIdle
    /\ RaceIdle
    /\ \E args \in DetectInputs :
          uCall = [fn |-> "detect_format", pc |-> "called", args |-> args, out |-> "none"]

\* detect_format(&source.reference, &bytes)
DetectCall ==
    /\ uCall.fn = "detect_format"
    /\ uCall.pc = "called"
    /\ uCall' = [uCall EXCEPT !.pc = "returned",
                              !.out = DetectFormatStr(uCall.args.reference, uCall.args.bytes)]
    /\ UNCHANGED <<dvars, pvars, cvars, fvars, racers>>

SpecDetect == DetectInit /\ [][DetectCall]_vars

\* --------------------------------------------------------- display dimensions

\* The documented examples of compute_display_dimensions: a panorama, a
\* portrait and a landscape at the default layout width.
DocumentedDisplayInputs ==
    {[w |-> 4000, h |-> 1000, layout |-> DefaultLayoutWidth],
     [w |-> 800, h |-> 1200, layout |-> DefaultLayoutWidth],
     [w |-> 1600, h |-> 900, layout |-> DefaultLayoutWidth]}

DisplayInputs ==
    [w : 1..MaxDim, h : 1..MaxDim, layout : 1..MaxDim] \cup DocumentedDisplayInputs

DisplayInit ==
    /\ DispatcherIdle
    /\ PlannerIdle
    /\ CacheIdle
    /\ PipelineIdle
    /\ RaceIdle
    /\ \E args \in DisplayInputs :
          uCall = [fn |-> "compute_display_dimensions", pc |-> "called",
                   args |-> args, out |-> [width |-> 0, height |-> 0, wide |-> FALSE]]

\* let (display_width, display_height, is_wide) =
\*     compute_display_dimensions(width as f64, height as f64, layout_width);
DisplayCall ==
    /\ uCall.fn = "compute_display_dimensions"
    /\ uCall.pc = "called"
    /\ uCall' = [uCall EXCEPT !.pc = "returned",
                              !.out = ComputeDisplayDimensions(uCall.args.w, uCall.args.h,
                                                               uCall.args.layout)]
    /\ UNCHANGED <<dvars, pvars, cvars, fvars, racers>>

SpecDisplay == DisplayInit /\ [][DisplayCall]_vars

\* ---------------------------------------------------- originals in the cache

\* The file names of a cache directory ensure_original_cached is tried on, and
\* the directories: each name absent or holding one of two contents.
CachedNames ==
    {FileName("a", <<>>, "jpg"), FileName("a", <<2>>, "jpg"), FileName("a", <<>>, ""),
     FileName("a", <<>>, "png")}

CachedDirs == UNION {[names -> 1..2] : names \in SUBSET CachedNames}

\* The calls: a source read from a file of the cache directory (cached_path is
\* that file), or a source from elsewhere under one of the names with one of
\* the contents, with the extension of a format.
EnsureInputs ==
    UNION {{[files |-> files, extension |-> extension,
             source |-> [name |-> name, inCache |-> TRUE, bytes |-> files[name]]] :
                name \in DOMAIN files, extension \in {"jpg", "png"}}
           \cup {[files |-> files, extension |-> "jpg",
                  source |-> [name |-> FileName("a", <<>>, "jpg"), inCache |-> FALSE,
                              bytes |-> bytes]] : bytes \in 1..2} :
           files \in CachedDirs}

EnsureInit ==
    /\ DispatcherIdle
    /\ PlannerIdle
    /\ CacheIdle
    /\ PipelineIdle
    /\ RaceIdle
    /\ \E args \in EnsureInputs :
          uCall = [fn |-> "ensure_original_cached", pc |-> "called", args |-> args,
                   out |-> [path |-> args.source.name, files |-> <<>>]]

\* self.ensure_original_cached(&source, extension)
EnsureCall ==
    /\ uCall.fn = "ensure_original_cached"
    /\ uCall.pc = "called"
    /\ uCall' = [uCall EXCEPT !.pc = "returned",
                              !.out = EnsureOriginalCached(uCall.args.files,
                                                           uCall.args.source,
                                                           uCall.args.extension)]
    /\ UNCHANGED <<dvars, pvars, cvars, fvars, racers>>

SpecEnsure == EnsureInit /\ [][EnsureCall]_vars

\* ------------------------------------------------------------ variant heights

\* The sources whose variants are measured: the JPEG of 1000 x 800, the PNG of
\* 300 x 200, a strip and a column, each with every Orientation entry of
\* TagValueInputs, or with none.
HeightSources ==
    {[format |-> b.magic,
      source |-> [name |-> FileName("a", <<>>, b.magic), inCache |-> FALSE,
                  bytes |-> ImageBytes(b.id, b.magic, b.w, b.h, tag, TRUE)]] :
        b \in {ImgBig, ImgSmall, ImgStrip, ImgColumn},
        tag \in TagValueInputs \cup {NoOrientation}}

HeightsInit ==
    /\ DispatcherIdle
    /\ PlannerIdle
    /\ CacheIdle
    /\ PipelineIdle
    /\ RaceIdle
    /\ \E args \in HeightSources :
          uCall = [fn |-> "process_raster", pc |-> "called", args |-> args,
                   files |-> <<>>,
                   out |-> Failure("none", "none", <<>>),
                   again |-> Failure("none", "none", <<>>)]

\* self.process_raster(source, format), the cache directory empty: the full
\* path.
HeightsFullCall ==
    /\ uCall.fn = "process_raster"
    /\ uCall.pc = "called"
    /\ \E out \in {ProcessRaster(uCall.files, uCall.args.source, uCall.args.format)} :
          uCall' = [uCall EXCEPT !.pc = "scheduled", !.out = out, !.files = out.files]
    /\ UNCHANGED <<dvars, pvars, cvars, fvars, racers>>

\* The resize job of the call writes every variant of its batch.
HeightsJobRuns ==
    /\ uCall.fn = "process_raster"
    /\ uCall.pc = "scheduled"
    /\ uCall' = [uCall EXCEPT
                    !.pc = "written",
                    !.files = [n \in DOMAIN uCall.files \cup PathsOf(uCall.out.batch) |->
                                  IF n \in PathsOf(uCall.out.batch)
                                     THEN VariantBytes(
                                              uCall.args.source.bytes,
                                              CHOOSE job \in Range(uCall.out.batch) :
                                                  job.path = n)
                                     ELSE uCall.files[n]]]
    /\ UNCHANGED <<dvars, pvars, cvars, fvars, racers>>

\* self.process_raster(source, format) for the same source once more.
HeightsCachedCall ==
    /\ uCall.fn = "process_raster"
    /\ uCall.pc = "written"
    /\ \E out \in {ProcessRaster(uCall.files, uCall.args.source, uCall.args.format)} :
          uCall' = [uCall EXCEPT !.pc = "returned", !.again = out, !.files = out.files]
    /\ UNCHANGED <<dvars, pvars, cvars, fvars, racers>>

SpecHeights ==
    HeightsInit /\ [][HeightsFullCall \/ HeightsJobRuns \/ HeightsCachedCall]_vars

\* ---------------------------------------------------------------- public URLs

\* str::trim_end_matches(c) and str::trim_start_matches(c)
RECURSIVE TrimEndMatches(_, _)
TrimEndMatches(text, c) ==
    IF text # <<>> /\ text[Len(text)] = c
       THEN TrimEndMatches(SubSeq(text, 1, Len(text) - 1), c)
       ELSE text

RECURSIVE TrimStartMatches(_, _)
TrimStartMatches(text, c) ==
    IF text # <<>> /\ Head(text) = c THEN TrimStartMatches(Tail(text), c) ELSE text

\* str::trim (the only whitespace of the modelled texts is the space)
Trim(text) == TrimEndMatches(TrimStartMatches(text, " "), " ")

\* Option<String>
SomeText(text) == [some |-> TRUE, text |-> text]

NoText == [some |-> FALSE, text |-> <<>>]

\* Config::normalize on root_url: trailing slashes go, "/" stays.
NormalizeRootUrl(root) ==
    IF root.some /\ root.text # <<"/">>
       THEN SomeText(TrimEndMatches(root.text, "/"))
       ELSE root

\* ImagesConfig::normalize on img_root_url: blank becomes None, "/" stays,
\* anything else is trimmed and loses its trailing slashes.
NormalizeImgRootUrl(root) ==
    IF ~root.some THEN root
    ELSE IF Trim(root.text) = <<>> THEN NoText
    ELSE IF Trim(root.text) = <<"/">> THEN SomeText(<<"/">>)
    ELSE SomeText(TrimEndMatches(Trim(root.text), "/"))

\* A path is a list of components: Component::Normal with its text, or
\* Component::ParentDir.
Normal(text) == [kind |-> "Normal", text |-> text]

ParentDir == [kind |-> "ParentDir", text |-> <<".", ".">>]

\* Path::strip_prefix(base).unwrap_or(path)
StripPrefixOr(path, base) ==
    IF StartsWith(path, base) THEN SubSeq(path, Len(base) + 1, Len(path)) ELSE path

\* str::replace('\\', "/")
ReplaceBackslash(text) ==
    [i \in 1..Len(text) |-> IF text[i] = "\\" THEN "/" ELSE text[i]]

\* .components().filter_map(..): the Normal components, backslashes replaced.
NormalSegments(path) ==
    LET normal == SelectSeq(path, LAMBDA c : c.kind = "Normal")
    IN  [i \in 1..Len(normal) |-> ReplaceBackslash(normal[i].text)]

\* [String]::join("/")
RECURSIVE JoinSlash(_)
JoinSlash(parts) ==
    IF parts = <<>> THEN <<>>
    ELSE IF Len(parts) = 1 THEN Head(parts)
    ELSE Head(parts) \o <<"/">> \o JoinSlash(Tail(parts))

\* A slip: the path is taken as it is, the cache directory not stripped.
PublicUrlForWholePath(cacheDir, imgRootUrl, rootUrl, path) ==
    TrimEndMatches(imgRootUrl.text, "/") \o <<"/">> \o JoinSlash(NormalSegments(path))

\* self.public_url_for(path), with self.cache_dir (which is
\* self.config.cache_dir), self.config.img_root_url and self.root_url.
PublicUrlFor(cacheDir, imgRootUrl, rootUrl, path) ==
    LET rel_without_cache == JoinSlash(NormalSegments(StripPrefixOr(path, cacheDir)))
        full_parts == NormalSegments(cacheDir)
                      \o (IF rel_without_cache # <<>> THEN <<rel_without_cache>> ELSE <<>>)
        joined == JoinSlash(full_parts)
    IN  IF imgRootUrl.some /\ imgRootUrl.text # <<>>
           THEN IF rel_without_cache = <<>>
                   THEN imgRootUrl.text
                   ELSE TrimEndMatches(imgRootUrl.text, "/") \o <<"/">> \o rel_without_cache
        ELSE IF rootUrl.some
           THEN IF rootUrl.text = <<"/">>
                   THEN IF joined = <<>> THEN <<"/">>
                        ELSE <<"/">> \o TrimStartMatches(joined, "/")
                ELSE IF joined = <<>> THEN rootUrl.text
                ELSE TrimEndMatches(rootUrl.text, "/") \o <<"/">> \o joined
        ELSE IF joined = <<>> THEN <<"/">>
        ELSE <<"/">> \o TrimStartMatches(joined, "/")

\* The configured values as written in the configuration file.
RawImgRootUrls == {NoText} \cup {SomeText(t) : t \in SeqsUpTo({"h", "/", " "}, 3)}

RawRootUrls == {NoText} \cup {SomeText(t) : t \in {<<"/">>, <<"r">>, <<"r", "/">>}}

\* The cache directories, and the paths below them: up to two components, a
\* plain name, a name with a backslash in it, or "..".
UrlCacheDirs == {<<Normal(<<"c">>)>>, <<Normal(<<"d">>), Normal(<<"c">>)>>}

UrlRelativePaths == SeqsUpTo({Normal(<<"a">>), Normal(<<"b", "\\", "a">>), ParentDir}, 2)

UrlInputs ==
    [cacheDir : UrlCacheDirs, relative : UrlRelativePaths,
     imgRootUrl : {NormalizeImgRootUrl(r) : r \in RawImgRootUrls},
     rootUrl : {NormalizeRootUrl(r) : r \in RawRootUrls}]

UrlInit ==
    /\ DispatcherIdle
    /\ PlannerIdle
    /\ CacheIdle
    /\ PipelineIdle
    /\ RaceIdle
    /\ \E args \in UrlInputs :
          uCall = [fn |-> "public_url_for", pc |-> "called", args |-> args, out |-> <<>>]

\* self.public_url_for(&path) for the path of a file of the cache directory.
UrlCall ==
    /\ uCall.fn = "public_url_for"
    /\ uCall.pc = "called"
    /\ uCall' = [uCall EXCEPT !.pc = "returned",
                              !.out = PublicUrlFor(uCall.args.cacheDir,
                                                   uCall.args.imgRootUrl,
                                                   uCall.args.rootUrl,
                                                   uCall.args.cacheDir
                                                       \o uCall.args.relative)]
    /\ UNCHANGED <<dvars, pvars, cvars, fvars, racers>>

SpecUrl == UrlInit /\ [][UrlCall]_vars

\* ---------------------------------------------------------------- build driver

\* The runs of main: the number of arguments is right or wrong, the
\* configuration file is not given, loads or fails to load, and the input is a
\* file or a directory whose .dllu files form groups by depth (no group when
\* none is found, "unreadable" when collect_dllu_files fails).
MainInputs ==
    [argsOk : BOOLEAN, config : {"none", "loads", "fails"},
     input : {[kind |-> "file", groups |-> <<1>>],
              [kind |-> "unreadable", groups |-> <<>>]}
             \cup {[kind |-> "dir", groups |-> g] :
                      g \in SeqsUpTo(1..MaxGroupSize, MaxGroups)}]

\* main has been entered: it has called nothing yet, and no resize job is
\* spawned. `calls` lists the functions main has called that bear on the
\* images.
MainInit ==
    /\ DispatcherIdle
    /\ PlannerIdle
    /\ CacheIdle
    /\ PipelineIdle
    /\ RaceIdle
    /\ \E args \in MainInputs :
          uCall = [fn |-> "main", pc |-> "args", args |-> args,
                   groups |-> args.input.groups, failed |-> FALSE,
                   calls |-> <<>>, spawned |-> 0, pendingJobs |-> 0]

\* lines 115-119: the usage check
MainCheckArgs ==
    /\ uCall.fn = "main"
    /\ uCall.pc = "args"
    /\ uCall' = [uCall EXCEPT !.pc = IF uCall.args.argsOk THEN "config" ELSE "exit1"]
    /\ UNCHANGED <<dvars, pvars, cvars, fvars, racers>>

\* lines 121-133 and the branch of line 134: Config::load, then the input is a
\* directory (collect_dllu_files, lines 135-146) or a file.
MainLoadConfig ==
    /\ uCall.fn = "main"
    /\ uCall.pc = "config"
    /\ uCall' = [uCall EXCEPT
                    !.pc = IF uCall.args.config = "fails" THEN "exit1"
                           ELSE IF uCall.args.input.kind = "unreadable" THEN "exit1"
                           ELSE IF uCall.args.input.groups = <<>> THEN "exit1"
                           ELSE "pages"]
    /\ UNCHANGED <<dvars, pvars, cvars, fvars, racers>>

\* process_file for one page of the current group (lines 156-159, or line 173
\* for a single file): the page is rendered, and its images have spawned
\* `jobs` resize jobs by the time it returns, with or without an error.
MainProcessFile(jobs, ok) ==
    /\ uCall.fn = "main"
    /\ uCall.pc = "pages"
    /\ uCall.groups # <<>>
    /\ Head(uCall.groups) > 0
    /\ uCall.spawned + jobs <= MaxMainJobs
    /\ uCall' = [uCall EXCEPT
                    !.groups = <<Head(uCall.groups) - 1>> \o Tail(uCall.groups),
                    !.failed = uCall.failed \/ ~ok,
                    !.calls = Append(uCall.calls, "process_file"),
                    !.spawned = uCall.spawned + jobs,
                    !.pendingJobs = uCall.pendingJobs + jobs]
    /\ UNCHANGED <<dvars, pvars, cvars, fvars, racers>>

\* lines 160-166 and 174-176: the result of the group is matched; an error
\* ends the process with status 1.
MainGroupDone ==
    /\ uCall.fn = "main"
    /\ uCall.pc = "pages"
    /\ uCall.groups # <<>>
    /\ Head(uCall.groups) = 0
    /\ uCall' = [uCall EXCEPT
                    !.groups = Tail(uCall.groups),
                    !.pc = IF uCall.failed THEN "exit1" ELSE "pages"]
    /\ UNCHANGED <<dvars, pvars, cvars, fvars, racers>>

\* lines 169-172 and 177: after the last group generate_sitemap runs (for a
\* directory) and main returns, or exits with status 1 when the sitemap fails.
MainFinish(sitemapOk) ==
    /\ uCall.fn = "main"
    /\ uCall.pc = "pages"
    /\ uCall.groups = <<>>
    /\ sitemapOk \/ uCall.args.input.kind = "dir"
    /\ uCall' = [uCall EXCEPT
                    !.pc = IF sitemapOk THEN "returned" ELSE "exit1",
                    !.calls = IF uCall.args.input.kind = "dir"
                                 THEN Append(uCall.calls, "generate_sitemap")
                                 ELSE uCall.calls]
    /\ UNCHANGED <<dvars, pvars, cvars, fvars, racers>>

\* A resize job ends on a pool thread while main is running; when main has
\* returned or exited the process is gone, and its jobs with it.
MainJobEnds ==
    /\ uCall.fn = "main"
    /\ uCall.pc \notin {"returned", "exit1"}
    /\ uCall.pendingJobs > 0
    /\ uCall' = [uCall EXCEPT !.pendingJobs = uCall.pendingJobs - 1]
    /\ UNCHANGED <<dvars, pvars, cvars, fvars, racers>>

MainNext ==
    \/ MainCheckArgs
    \/ MainLoadConfig
    \/ \E jobs \in 0..1, ok \in BOOLEAN : MainProcessFile(jobs, ok)
    \/ MainGroupDone
    \/ \E sitemapOk \in BOOLEAN : MainFinish(sitemapOk)
    \/ MainJobEnds

SpecMain == MainInit /\ [][MainNext]_vars

\* ------------------------------------------------------------------ claims

\* C1: when wait() has returned, every job whose spawn() had incremented the
\* pending counter before wait() was called has finished running: none of
\* them is still to be enqueued, queued or executing.
C1_WaitReturnsAfterEarlierJobs ==
    \A w \in Waiters :
        wpc[w] = "returned" => \A j \in mustFinish[w] : JobBodyFinished(j)

\* C1 witness: a wait() that was called with a job counted, slept, and returned.
C1_Witness ==
    \E w \in Waiters :
        /\ wpc[w] = "returned"
        /\ parked[w]
        /\ mustFinish[w] # {}

\* C2: every thread inside wait() eventually returns, when every spawned job
\* terminates and spawn() stops being called.
C2_EveryWaiterReturns ==
    \A w \in Waiters : (wpc[w] # "idle") ~> (wpc[w] = "returned")

\* C2 witness: several threads have slept inside wait() and all have returned,
\* with every job slot used and done.
C2_Witness ==
    /\ \A w \in Waiters : wpc[w] = "returned" /\ parked[w]
    /\ \A j \in Jobs : jpc[j] = "done"

\* C5: target_resize_widths returns a strictly ascending, duplicate-free list
\* with no entry 0 and no entry at or above the original width, for every size
\* list, layout width, display width and original width; the variants list
\* built from it is sorted by width, has no duplicate width and no width at or
\* above the original width.
C5_PlannedWidthsAscendingBelowOriginal ==
    /\ pPc \in {"planned", "built"} =>
          /\ StrictlyAscending(pWidths)
          /\ \A i \in 1..Len(pWidths) : pWidths[i] # 0 /\ pWidths[i] < pIn.ow
    /\ pPc = "built" =>
          /\ Len(pVariants) = Len(pWidths)
          /\ StrictlyAscending([i \in 1..Len(pVariants) |-> pVariants[i].width])
          /\ \A i \in 1..Len(pVariants) : pVariants[i].width < pIn.ow

\* C5 witness: an unsorted size list with a duplicate and a size above the
\* original width, planned into two variants.
C5_Witness ==
    /\ pPc = "built"
    /\ Len(pIn.sizes) >= 2
    /\ ~StrictlyAscending(pIn.sizes)
    /\ \E i \in 1..Len(pIn.sizes) : pIn.sizes[i] > pIn.ow
    /\ Len(pVariants) >= 2

\* C6 as stated: the documented example (original width 2000, sizes
\* [480, 800, 1200], layout width 1200, display width 1200) plans exactly
\* [480, 800].
C6_Original ==
    (pPc \in {"planned", "built"} /\ pIn = DocumentedPlanInput) => pWidths = <<480, 800>>

\* C6 amended: the documented example plans exactly [480, 800, 1200]: 1200 is
\* below the original width and is kept.
C6_DocumentedExamplePlan ==
    (pPc \in {"planned", "built"} /\ pIn = DocumentedPlanInput) => pWidths = <<480, 800, 1200>>

\* C6 witness: the documented example has been planned.
C6_Witness ==
    pPc = "planned" /\ pIn = DocumentedPlanInput /\ Len(pWidths) = 3

\* C4: over sequential ensure_original_cached calls that share one preferred
\* file name, the i-th distinct content is stored as name.ext (i = 1) or
\* name-i.ext, each distinct content occupies exactly one file, a call with a
\* content already stored returns the path that holds it and creates no file,
\* and no call changes the bytes of a file that existed before it.
C4_NumberedSlotsPerDistinctContent ==
    LET base == CacheBase(cCall.name)
        order == cCall.order
    IN  /\ DOMAIN fs = {NthName(base, i) : i \in 1..Len(order)}
        /\ \A i \in 1..Len(order) : fs[NthName(base, i)] = order[i]
        /\ \A f \in DOMAIN fs : \A g \in DOMAIN fs : fs[f] = fs[g] => f = g
        /\ cCall.n > 0 =>
              /\ Exists(fs, cCall.path) /\ fs[cCall.path] = cCall.bytes
              /\ \A f \in DOMAIN cCall.before : Exists(fs, f) /\ fs[f] = cCall.before[f]
              /\ (\E f \in DOMAIN cCall.before : cCall.before[f] = cCall.bytes)
                    => fs = cCall.before

\* C4 witness: two contents are stored as name.ext and name-2.ext, and the
\* last call offered the first content again: it got name.ext back and no
\* name-3.ext was made.
C4_Witness ==
    /\ Len(cCall.order) = 2
    /\ cCall.bytes = cCall.order[1]
    /\ cCall.before = fs
    /\ cCall.path = CacheBase(cCall.name)
    /\ DOMAIN fs = {CacheBase(cCall.name), NumberedFilename(CacheBase(cCall.name), 2)}

\* C3: when the wait_for_pending_resizes() call of the build driver has
\* returned and no background resize job failed, a file exists at the path of
\* every variant of every ProcessedImage that process() had returned before
\* the call started.
C3_VariantFilesExistAfterWait ==
    \A w \in Waiters :
        (wpc[w] = "returned" /\ failedPaths = {}) =>
            \A path \in owed : Exists(fs, path)

\* C3 witness: the driver called the barrier while a job with two variants to
\* write was still queued, slept in it, and returned with both files written.
C3_Witness ==
    \E w \in Waiters :
        /\ wpc[w] = "returned"
        /\ parked[w]
        /\ failedPaths = {}
        /\ Cardinality(owed) >= 2
        /\ \A path \in owed : Exists(fs, path)

\* C7 as stated: a process_raster call returns through the cache fast path
\* only when the dimension sidecar of the original exists and parses and every
\* variant planned from the cached dimensions exists; and a call that takes the
\* fast path spawns no resize job and writes no file in the cache directory.
C7_FastPathWritesNothing ==
    (last.n > 0 /\ last.route = "fast") =>
        LET dims == LoadCachedDimensions(last.after, last.original)
        IN  /\ dims.ok
            /\ \A path \in PathsOf(PlanVariantSpecs(last.original, dims.w, dims.h,
                                                    last.extension)) :
                  Exists(last.after, path)
            /\ last.spawned = 0
            /\ last.after = last.entry

\* C8: when a planned variant file is missing, process_raster takes the full
\* path; the paths handed to the dispatcher are exactly the planned variant
\* paths that did not exist when they were looked for, in one job; and when
\* none is missing no job is spawned.
C8_ExactlyMissingVariantsScheduled ==
    (last.n > 0 /\ last.outcome = "ok" /\ last.route \in {"fast", "full"}) =>
        LET missing == {path \in last.planned : ~Exists(last.after, path)}
        IN  /\ missing # {} => last.route = "full"
            /\ last.batch = missing
            /\ last.spawned = IF missing = {} THEN 0 ELSE 1

\* C8 witness: a full-path call that planned two variants, found one of them on
\* disk, and scheduled the other one only.
C8_Witness ==
    /\ last.n > 0
    /\ last.route = "full"
    /\ Cardinality(last.planned) = 2
    /\ Cardinality(last.batch) = 1
    /\ last.spawned = 1
    /\ \E path \in last.planned : Exists(last.before, path)

\* The candidate a remote call found in the cache (0: none).
LastCacheHit == FirstCached(last.before, RemoteCacheCandidates(last.ref))

\* C9 as stated: for a remote reference with a candidate cache file on disk,
\* fetch_remote returns the bytes of the first existing candidate and issues
\* no network request.
C9_CacheHitReturnsBytes ==
    (last.n > 0 /\ last.ref.remote /\ LastCacheHit # 0) =>
        /\ last.net = 0
        /\ last.loaded = "ok"
        /\ last.bytes = last.before[RemoteCacheCandidates(last.ref)[LastCacheHit]]

\* C9 amended: for a remote reference with a candidate cache file on disk,
\* fetch_remote issues no network request and writes no file, and it returns
\* the bytes of the first existing candidate unless no format can be detected
\* for them, in which case it fails with UnsupportedFormat.
C9_CacheHitNoRequest ==
    (last.n > 0 /\ last.ref.remote /\ LastCacheHit # 0) =>
        LET cached == last.before[RemoteCacheCandidates(last.ref)[LastCacheHit]]
        IN  /\ last.net = 0
            /\ last.entry = last.before
            /\ IF DetectFormat(last.ref.name.ext, cached) = "unsupported"
                  THEN last.loaded = "unsupported" /\ last.bytes = NoBytes
                  ELSE last.loaded = "ok" /\ last.bytes = cached

\* C9 witness: a remote reference whose first candidate is absent and whose
\* second candidate is on disk: the call returned that file's bytes without a
\* request.
C9_Witness ==
    /\ last.n > 0
    /\ last.ref.remote
    /\ LastCacheHit = 2
    /\ last.net = 0
    /\ last.bytes = ImgBig

\* Whether the last call was a remote fetch that failed: no candidate cached,
\* and a transport error or a status of 400 and above.
LastFetchFailed ==
    /\ last.n > 0
    /\ last.ref.remote
    /\ LastCacheHit = 0
    /\ (last.env.kind = "neterr" \/ last.env.status >= 400)

CountedJobs == {j \in Jobs : jpc[j] \in {"counted", "queued", "writing", "finishing"}}

\* A step of the closure of a job: it changes nothing of the process() calls
\* made, and a job whose closure ends, failed or not, is decremented from the
\* pending counter like any other.
JobStepsKeepCalls ==
    (\E j \in Jobs : jpc'[j] # jpc[j] /\ jpc[j] \in {"queued", "writing", "finishing"})
        => /\ last' = last
           /\ calls' = calls
           /\ advertised' = advertised

\* C11 as stated: when the closure of a job has ended, every variant it was
\* handed has been attempted, whatever failed (the decode of the source
\* included), and every variant that did not fail itself is on disk; no
\* failure reaches a process() call; the pending counter counts exactly the
\* jobs spawned and not finished, failed or not.
C11_FailureAffectsOneVariant ==
    /\ [](\A j \in Jobs :
            JobBodyFinished(j) =>
                /\ jobLog[j].attempted = jobLog[j].handed
                /\ \A path \in jobLog[j].handed \ jobLog[j].failed : Exists(fs, path))
    /\ [](pending = Cardinality(CountedJobs))
    /\ [][JobStepsKeepCalls]_vars

\* C11 amended: a failed encode or write affects only its own variant (every
\* other variant of the batch is attempted, and written unless it fails
\* itself), while a failed decode of the source ends the job with no variant
\* attempted; in both cases no failure reaches a process() call and the
\* pending counter counts exactly the jobs spawned and not finished.
C11_VariantFailureIsLocal ==
    /\ [](\A j \in Jobs :
            JobBodyFinished(j) =>
                /\ jobLog[j].decoded = "ok" =>
                      /\ jobLog[j].attempted = jobLog[j].handed
                      /\ \A path \in jobLog[j].handed \ jobLog[j].failed :
                            Exists(fs, path)
                /\ jobLog[j].decoded = "failed" => jobLog[j].attempted = {})
    /\ [](pending = Cardinality(CountedJobs))
    /\ [][JobStepsKeepCalls]_vars

\* C11 witness: a job handed two variants is done and decremented; the
\* generation of one variant failed, the other one is on disk.
C11_Witness ==
    \E j \in Jobs :
        /\ jpc[j] = "done"
        /\ pending = 0
        /\ Cardinality(jobLog[j].handed) = 2
        /\ Cardinality(jobLog[j].failed) = 1
        /\ \E path \in jobLog[j].handed \ jobLog[j].failed : Exists(fs, path)
        /\ last.outcome = "ok"

\* The threads of a concurrent run that have returned from a write to the
\* same path with different bytes, the first before the second.
Overwritten(t, u) ==
    /\ t # u
    /\ racers.th[t].pc = "returned"
    /\ racers.th[u].pc = "returned"
    /\ racers.th[t].target = racers.th[u].target
    /\ racers.th[t].bytes # racers.th[u].bytes
    /\ \E i, k \in 1..Len(racers.writes) :
          i < k /\ racers.writes[i] = t /\ racers.writes[k] = u

\* C12: two threads inside ensure_original_cached for sources with the same
\* preferred file name and distinct contents can pick the same target path,
\* the check that the path is free and the write being two steps; when they
\* do, the later write replaces the earlier one, and the earlier thread is
\* returned a path whose file does not hold its source bytes.
C12_RacingWritesOverwrite ==
    \A t, u \in Racers :
        (Overwritten(t, u) /\ ~\E v \in Racers \ {t, u} : Overwritten(u, v)) =>
            /\ Exists(fs, racers.th[t].target)
            /\ fs[racers.th[u].target] = racers.th[u].bytes
            /\ fs[racers.th[t].target] # racers.th[t].bytes

\* C12 witness: both threads found a.jpg taken by other bytes and a-2.jpg
\* free, both wrote a-2.jpg and returned it; it holds the bytes of the second.
C12_Witness ==
    \E t, u \in Racers :
        /\ Overwritten(t, u)
        /\ racers.th[t].target = NumberedFilename(RaceBase, 2)
        /\ fs[racers.th[t].target] # racers.th[t].bytes
        /\ fs[racers.th[u].target] = racers.th[u].bytes

\* C13: for all integers w, h, L > 0, compute_display_dimensions(w, h, L)
\* returns a display width and a display height of at least 1, and is_wide is
\* true exactly when w >= 2 * h.
C13_DisplayAtLeastOneWideIffDouble ==
    (uCall.fn = "compute_display_dimensions" /\ uCall.pc = "returned") =>
        /\ uCall.out.width >= 1
        /\ uCall.out.height >= 1
        /\ uCall.out.wide <=> (uCall.args.w >= 2 * uCall.args.h)

\* C13 witness: a strip one pixel high, far wider than twice the layout width:
\* wide, and its height does not fall to 0.
C13_Witness ==
    /\ uCall.fn = "compute_display_dimensions"
    /\ uCall.pc = "returned"
    /\ uCall.args.h = 1
    /\ uCall.args.w > 4 * uCall.args.layout
    /\ uCall.out.wide
    /\ uCall.out.height = 1

\* The reference function of compute_display_dimensions, in exact arithmetic:
\* portrait, height min(L, h) and width round(height * w / h); w >= 2h, width
\* min(w, 2L) and height round(width * h / w); else width min(L, w) and height
\* round(width * h / w); each result at least 1.
DisplayReference(w, h, layout) ==
    IF w < h
       THEN [width |-> Max(RoundDiv(Min(layout, h) * w, h), 1),
             height |-> Max(Min(layout, h), 1), wide |-> FALSE]
    ELSE IF w >= 2 * h
       THEN [width |-> Max(Min(w, 2 * layout), 1),
             height |-> Max(RoundDiv(Min(w, 2 * layout) * h, w), 1), wide |-> TRUE]
    ELSE [width |-> Max(Min(layout, w), 1),
          height |-> Max(RoundDiv(Min(layout, w) * h, w), 1), wide |-> FALSE]

\* C14 as stated: for all w, h, L > 0, compute_display_dimensions(w, h, L)
\* equals the reference function.
C14_DisplayEqualsReference ==
    (uCall.fn = "compute_display_dimensions" /\ uCall.pc = "returned") =>
        uCall.out = DisplayReference(uCall.args.w, uCall.args.h, uCall.args.layout)

\* The APP1 segment the documentation describes for a metadata block: FF E1,
\* the length of the block plus 2 as two big-endian bytes, the block.
DocumentedApp1(exif) ==
    <<255, 225, (Len(exif) + 2) \div 256, (Len(exif) + 2) % 256>> \o exif

HasApp1(segments) == \E i \in 1..Len(segments) : segments[i][2] = 225

\* A returned call of insert_exif_segment on SOI, APPn segments other than
\* APP1, further segments, SOS, with a block that fits the length field.
InsertReturnedOnJpeg ==
    /\ uCall.fn = "insert_exif_segment"
    /\ uCall.pc = "returned"
    /\ uCall.args.form = "jpeg"
    /\ ~HasApp1(uCall.args.lead)
    /\ Len(ExifBlocks[uCall.args.exif]) + 2 <= U16Max

InsertedAfterLeadingRun ==
    uCall.out = Soi \o Flatten(uCall.args.lead) \o DocumentedApp1(ExifBlocks[uCall.args.exif])
                    \o Flatten(uCall.args.further) \o Sos

\* C15 as stated: on a stream of SOI, any number of APPn segments other than
\* APP1, then further segments ending in SOS, insert_exif_segment with a block
\* that fits places one new APP1 segment right after the last leading APPn
\* segment and leaves every other byte unchanged and in order.
C15_InsertKeepsEveryOtherByte ==
    InsertReturnedOnJpeg => InsertedAfterLeadingRun

\* C15: on a stream of SOI, any number of APPn segments other than APP1, then
\* further segments none of which is an APP1, ending in SOS,
\* insert_exif_segment with a block that fits places one new APP1 segment (FF
\* E1, the block length plus 2 in two big-endian bytes, the block) right after
\* the last leading APPn segment and before SOS, and leaves every other byte
\* unchanged and in order.
C15_InsertAfterLeadingAppSegments ==
    (InsertReturnedOnJpeg /\ ~HasApp1(uCall.args.further)) => InsertedAfterLeadingRun

\* C15 witness: two leading APPn segments, one with a payload that reads like
\* an APP1 marker, a table before SOS, and the new segment between them.
C15_Witness ==
    /\ InsertReturnedOnJpeg
    /\ uCall.args.lead = <<App0, App2>>
    /\ uCall.args.further = <<Dqt>>
    /\ Len(ExifBlocks[uCall.args.exif]) = 8
    /\ InsertedAfterLeadingRun
    /\ Len(uCall.out) = Len(uCall.args.jpeg) + 12

\* C16: insert_exif_segment leaves the stream unchanged when the block length
\* plus 2 exceeds 65535 or the stream does not start with FF D8; when it
\* inserts, the stream holds FF E1, a length field that reads the block length
\* plus 2, and the block.
C16_OversizedOrNotJpegUnchanged ==
    (uCall.fn = "insert_exif_segment" /\ uCall.pc = "returned") =>
        LET jpeg == uCall.args.jpeg
            exif == ExifBlocks[uCall.args.exif]
            out == uCall.out
            startsWithSoi == Len(jpeg) >= 2 /\ jpeg[1] = 255 /\ jpeg[2] = 216
        IN  IF Len(exif) + 2 > 65535 \/ ~startsWithSoi
               THEN out = jpeg
               ELSE \E p \in 2..(Len(out) - Len(exif) - 4) :
                       /\ out[p + 1] = 255
                       /\ out[p + 2] = 225
                       /\ out[p + 3] * 256 + out[p + 4] = Len(exif) + 2
                       /\ SubSeq(out, p + 5, p + 4 + Len(exif)) = exif

\* C16 witness: a block of 65534 bytes, one more than fits, and the stream as
\* it was.
C16_Witness ==
    /\ uCall.fn = "insert_exif_segment"
    /\ uCall.pc = "returned"
    /\ uCall.args.form = "jpeg"
    /\ Len(ExifBlocks[uCall.args.exif]) = 65534
    /\ uCall.out = uCall.args.jpeg

NormalizeReturned ==
    uCall.fn = "normalize_exif_orientation" /\ uCall.pc = "returned"

\* The entries of the block's first directory that read as Orientation.
OrientationEntries == {k \in 1..Len(uCall.args.run) : uCall.args.run[k].tag = 274}

FirstOrientationEntry ==
    CHOOSE k \in OrientationEntries : \A j \in OrientationEntries : k <= j

\* The position (from 0) of the value field of the k-th entry.
ValueFieldOf(k) == 6 + 8 + uCall.args.gap + 2 + 12 * (k - 1) + 8

\* The block has a first directory in reach, with an Orientation entry whose
\* 12 bytes are all there.
OrientationInReach ==
    /\ uCall.args.form = "exif"
    /\ uCall.args.order \in {"II", "MM"}
    /\ uCall.args.offset = "true"
    /\ OrientationEntries # {}
    /\ ValueFieldOf(FirstOrientationEntry) + 4 <= Len(uCall.args.block)

\* The directory is cut short: it lies outside the block, or the block ends
\* before the last declared entry does.
DirectoryTruncated ==
    \/ uCall.args.offset # "true"
    \/ 6 + 8 + uCall.args.gap + 2 + 12 * uCall.args.count > Len(uCall.args.block)

\* The block with the two bytes at p (from 0) reading 1 in its byte order.
WithValueOne(block, p, order) ==
    [i \in 1..Len(block) |->
        IF i = p + 1 THEN (IF order = "II" THEN 1 ELSE 0)
        ELSE IF i = p + 2 THEN (IF order = "II" THEN 0 ELSE 1)
        ELSE block[i]]

OnlyOrientationValueRewritten ==
    /\ Len(uCall.out) = Len(uCall.args.block)
    /\ uCall.out = IF OrientationInReach
                      THEN WithValueOne(uCall.args.block,
                                        ValueFieldOf(FirstOrientationEntry),
                                        uCall.args.order)
                      ELSE uCall.args.block

\* C17 as stated: normalize_exif_orientation keeps the length of the block and
\* changes at most the 2-byte value field of the first entry with tag 0x0112
\* of the first directory, which then reads 1 in the declared byte order; a
\* block with no such entry, an unknown byte-order mark or a truncated
\* directory is left unchanged.
C17_TruncatedDirectoryUnchanged ==
    NormalizeReturned =>
        /\ OnlyOrientationValueRewritten
        /\ DirectoryTruncated => uCall.out = uCall.args.block

\* C17: normalize_exif_orientation keeps the length of the block and changes
\* at most the 2-byte value field of the first entry with tag 0x0112 of the
\* first directory, which then reads 1 in the declared byte order (II or MM);
\* a block with no such entry, an unknown byte-order mark, or a directory that
\* ends before that entry does, is left unchanged, and every read and write
\* stays inside the block.
C17_OnlyOrientationValueRewritten ==
    NormalizeReturned => OnlyOrientationValueRewritten

\* C17 witness: a big-endian block whose directory starts after two bytes that
\* read like the tag, with Make before Orientation, and the value 6 turned
\* into 1.
C17_Witness ==
    /\ NormalizeReturned
    /\ uCall.args.order = "MM"
    /\ uCall.args.gap = 2
    /\ Len(uCall.args.run) = 2
    /\ OrientationEntries = {2}
    /\ OrientationInReach
    /\ uCall.out # uCall.args.block
    /\ ReadU16(uCall.args.block, ValueFieldOf(2), FALSE) = 6
    /\ ReadU16(uCall.out, ValueFieldOf(2), FALSE) = 1

\* The number a numeric tag value stands for is negative, is within 1..8, and
\* what it is clamped to the 16-bit range.
TagNumberNegative(value) ==
    value.kind # "U32" /\ value.values[1] < 0

TagNumberIsCode(value) ==
    IF value.kind = "U32"
       THEN value.values[1].hi = 0 /\ value.values[1].lo \in 1..8
       ELSE value.values[1] \in 1..8

TagNumberClamped(value) ==
    IF value.kind = "U32"
       THEN (IF value.values[1].hi > 0 THEN 65535 ELSE value.values[1].lo)
       ELSE Min(value.values[1], 65535)

\* C18: for every numeric encoding of the orientation tag (unsigned or signed,
\* 8, 16 or 32 bits) and every value v, tag_value_to_u16 yields 0 when v < 0
\* and min(v, 65535) when v >= 0, and a value outside 1..8 never becomes an
\* orientation code inside 1..8.
C18_TagValueClamped ==
    (/\ uCall.fn = "tag_value_to_u16"
     /\ uCall.pc = "returned"
     /\ uCall.args.kind \in NumericKinds
     /\ uCall.args.values # <<>>) =>
        /\ uCall.out.some
        /\ uCall.out.v = IF TagNumberNegative(uCall.args) THEN 0
                                                          ELSE TagNumberClamped(uCall.args)
        /\ ~TagNumberIsCode(uCall.args) =>
              (uCall.out.v \notin 1..8 /\ uCall.applied = "none")

\* The Orientation entry of the source gives a code within 5..8.
SourceOrientationTransposes ==
    LET tag == uCall.args.source.bytes.orient
    IN  /\ tag.kind \in NumericKinds
        /\ tag.values # <<>>
        /\ IF tag.kind = "U32"
              THEN tag.values[1].hi = 0 /\ tag.values[1].lo \in 5..8
              ELSE tag.values[1] \in 5..8

\* C19: on the full raster path, the width and height given to the display
\* computation, reported for the original, used to plan the variants and
\* written to the dimension sidecar are the probed ones, exchanged exactly
\* when the orientation code of the source is within 5..8.
C19_DimensionsSwappedIffTransposed ==
    (/\ uCall.fn = "process_raster"
     /\ uCall.pc = "returned"
     /\ uCall.out.outcome = "ok"
     /\ uCall.out.route = "full") =>
        LET probed == uCall.args.source.bytes
            width == IF SourceOrientationTransposes THEN probed.h ELSE probed.w
            height == IF SourceOrientationTransposes THEN probed.w ELSE probed.h
            out == uCall.out
        IN  /\ out.display = DisplayAtLayoutWidth[<<width, height>>]
            /\ out.width = width
            /\ out.height = height
            /\ out.variants = SortByWidth(PlanVariantSpecs(out.original, width, height,
                                                           ExtensionForFormat(uCall.args.format)))
            /\ out.files[DimensionCachePath(out.original)] = SidecarBytes(width, height)

\* C20: detect_format returns Svg when the reference ends in .svg (in any
\* case) or the first 512 bytes after leading whitespace hold '<svg' (in any
\* case); otherwise the format of the magic bytes when there is one; otherwise
\* the codec of the reference's file extension; otherwise UnsupportedFormat.
C20_DetectFormatDecisionOrder ==
    (uCall.fn = "detect_format" /\ uCall.pc = "returned") =>
        uCall.out =
            IF uCall.args.endsInSvg \/ uCall.args.tagEnd \in 1..512 THEN "svg"
            ELSE IF uCall.args.magic # "none" THEN uCall.args.magic
            ELSE uCall.args.codec

\* C20 witness: a reference ending in .SVG with the PNG signature and no root
\* tag is classified Svg; the earlier rule wins.
C20_Witness ==
    /\ uCall.fn = "detect_format"
    /\ uCall.pc = "returned"
    /\ uCall.args.endsInSvg
    /\ uCall.args.magic = "png"
    /\ uCall.args.codec = "unsupported"
    /\ uCall.args.tagEnd = 0
    /\ uCall.out = "svg"

\* C21: when the cached_path of the source lies under the cache directory,
\* ensure_original_cached returns that path and leaves the cache directory as
\* it was: no file written, no numbered copy made.
C21_CachedSourceReturnedAsIs ==
    (/\ uCall.fn = "ensure_original_cached"
     /\ uCall.pc = "returned"
     /\ uCall.args.source.inCache) =>
        /\ uCall.out.path = uCall.args.source.name
        /\ uCall.out.files = uCall.args.files

\* C21 witness: the source is the cached file "a", with no extension, while
\* "a.jpg" holds other bytes; the call returns "a" and makes no "a-2.jpg".
C21_Witness ==
    /\ uCall.fn = "ensure_original_cached"
    /\ uCall.pc = "returned"
    /\ uCall.args.source.inCache
    /\ uCall.args.source.name = FileName("a", <<>>, "")
    /\ uCall.args.extension = "jpg"
    /\ Exists(uCall.args.files, FileName("a", <<>>, "jpg"))
    /\ uCall.args.files[FileName("a", <<>>, "jpg")] # uCall.args.source.bytes
    /\ ~Exists(uCall.out.files, FileName("a", <<2>>, "jpg"))
    /\ uCall.out.path = FileName("a", <<>>, "")

\* The variants of an outcome carry the heights of the claimed formula,
\* max(1, round(width * original_height / original_width)), in exact
\* arithmetic.
HeightsAsClaimed(outcome) ==
    \A i \in 1..Len(outcome.variants) :
        outcome.variants[i].height =
            Max(RoundDiv(outcome.variants[i].width * outcome.height, outcome.width), 1)

\* C22: every variant of a ProcessedImage of a raster source, on the full path
\* and on the cache fast path, has height
\* max(1, round(variant_width * original_height / original_width)) for the
\* dimensions reported for the original, and the two paths give a width the
\* same height.
C22_VariantHeightIsRoundedProportion ==
    uCall.fn = "process_raster" =>
        /\ (uCall.pc # "called" /\ uCall.out.outcome = "ok") =>
              HeightsAsClaimed(uCall.out)
        /\ (uCall.pc = "returned" /\ uCall.again.outcome = "ok") =>
              /\ HeightsAsClaimed(uCall.again)
              /\ uCall.again.variants = uCall.out.variants

\* The names of the Normal components of a cache-relative path, as they are.
SegmentNames(relative) ==
    LET normal == SelectSeq(relative, LAMBDA c : c.kind = "Normal")
    IN  [i \in 1..Len(normal) |-> normal[i].text]

\* A returned public_url_for call with an asset host prefix configured.
UrlWithPrefixReturned ==
    /\ uCall.fn = "public_url_for"
    /\ uCall.pc = "returned"
    /\ uCall.args.imgRootUrl.some
    /\ uCall.args.imgRootUrl.text # <<>>

\* C23 as stated: with a non-empty img_root_url the URL is the prefix, "/" and
\* the segments of the cache-relative path joined with "/", or the prefix alone
\* when there is no segment; root_url and the cache directory play no part.
C23_UrlIsPrefixSlashRelative ==
    UrlWithPrefixReturned =>
        uCall.out = IF SegmentNames(uCall.args.relative) = <<>>
                       THEN uCall.args.imgRootUrl.text
                       ELSE uCall.args.imgRootUrl.text \o <<"/">>
                            \o JoinSlash(SegmentNames(uCall.args.relative))

\* C23, amended: with a non-empty img_root_url the URL is the prefix without
\* its trailing "/" characters, "/" and the segments of the cache-relative
\* path, each with "\" replaced by "/", joined with "/", or the prefix alone
\* when there is no segment; root_url and the cache directory play no part.
C23_UrlIsTrimmedPrefixSlashRelative ==
    UrlWithPrefixReturned =>
        uCall.out =
            IF SegmentNames(uCall.args.relative) = <<>>
               THEN uCall.args.imgRootUrl.text
               ELSE TrimEndMatches(uCall.args.imgRootUrl.text, "/") \o <<"/">>
                    \o JoinSlash([i \in 1..Len(SegmentNames(uCall.args.relative)) |->
                                     ReplaceBackslash(SegmentNames(uCall.args.relative)[i])])

\* The prefix "/" with a file in a directory under the two-level cache
\* directory, root_url set: the URL is "/a/a".
C23_Witness ==
    /\ UrlWithPrefixReturned
    /\ uCall.args.imgRootUrl.text = <<"/">>
    /\ uCall.args.rootUrl = SomeText(<<"r">>)
    /\ Len(uCall.args.cacheDir) = 2
    /\ uCall.args.relative = <<Normal(<<"a">>), Normal(<<"a">>)>>
    /\ uCall.out = <<"/", "a", "/", "a">>

\* C24: whenever main has completed a build successfully, it has called the
\* barrier wait_for_pending_resizes() after its last process_file call.
C24_BarrierBeforeBuildCompletes ==
    (uCall.fn = "main" /\ uCall.pc = "returned") =>
        \E i \in 1..Len(uCall.calls) :
            /\ uCall.calls[i] = "wait_for_pending_resizes"
            /\ \A k \in (i + 1)..Len(uCall.calls) : uCall.calls[k] # "process_file"

\* The jobs whose spawn() has incremented the counter and whose job_finished()
\* has not yet decremented it.
UnfinishedJobs == {j \in Jobs : jpc[j] \in {"counted", "queued", "finishing"}}

\* One step as C25 has it: a job is counted before it is enqueued, the counter
\* goes up by one with a spawn and down by one (never below 0) with the end of
\* one job, and a job goes on to notify exactly when its decrement took the
\* counter from 1 to 0; nothing else moves the counter or notifies.
StepKeepsCount ==
    /\ \A j \in Jobs : jpc[j] = "unspawned" => jpc'[j] \in {"unspawned", "counted"}
    /\ \A j \in Jobs : (jpc[j] = "unspawned" /\ jpc'[j] = "counted") =>
                           pending' = pending + 1
    /\ \A j \in Jobs : (jpc[j] = "finishing" /\ jpc'[j] # "finishing") =>
                           /\ pending >= 1
                           /\ pending' = pending - 1
                           /\ jpc'[j] = "locking" <=> (pending = 1 /\ pending' = 0)
    /\ \A j \in Jobs : (jpc[j] # "locking" /\ jpc'[j] = "locking") => jpc[j] = "finishing"
    /\ pending' # pending =>
           Cardinality({j \in Jobs : /\ jpc[j] # jpc'[j]
                                     /\ jpc[j] \in {"unspawned", "finishing"}}) = 1
    /\ (\E w \in Waiters : wpc[w] = "sleeping" /\ wpc'[w] = "woken" /\ jpc' # jpc) =>
           \E j \in Jobs : jpc[j] = "locking" /\ jpc'[j] = "done"

\* C25: pending is always the number of jobs spawned and not yet finished;
\* spawn increments it before the job can start, each job decrements it once
\* after its body, it never underflows, and waiters are notified exactly when a
\* decrement takes it from 1 to 0.
C25_PendingCountsUnfinishedJobs ==
    [](pending = Cardinality(UnfinishedJobs)) /\ [][StepKeepsCount]_vars

\* The second job has taken the counter from 1 to 0 and is about to notify a
\* sleeping waiter; the first job is done.
C25_Witness ==
    /\ pending = 0
    /\ jpc = <<"done", "locking">>
    /\ \E w \in Waiters : wpc[w] = "sleeping"

\* The jobs a step spawns.
SpawnedByStep == {j \in Jobs : jpc[j] = "unspawned" /\ jpc'[j] # "unspawned"}

\* A process() call spawns no job or one, which carries every planned variant
\* that is missing when the call returns; a job decodes only once, and before
\* it has attempted any variant.
StepBatchesAndDecodesOnce ==
    /\ calls' = calls + 1 =>
          /\ pending' \in {pending, pending + 1}
          /\ Cardinality(SpawnedByStep) = pending' - pending
          /\ \A j \in SpawnedByStep :
                jobLog'[j].handed = {path \in last'.planned : ~Exists(fs', path)}
          /\ SpawnedByStep = {} => \A path \in last'.planned : Exists(fs', path)
    /\ \A j \in Jobs :
          jobLog'[j].decoded # jobLog[j].decoded =>
              /\ jobLog[j].decoded = "no"
              /\ jobLog[j].attempted = {}

\* C26: each process() call spawns at most one dispatcher job, carrying all
\* missing variants of its source; the job decodes the source and applies the
\* orientation exactly once, before any variant of the batch is written, and
\* writes no variant of the batch when the decode fails.
C26_OneJobPerCallDecodedOnce ==
    /\ [](\A j \in Jobs :
             /\ jobLog[j].attempted # {} => jobLog[j].decoded = "ok"
             /\ jobLog[j].decoded = "failed" => jobLog[j].attempted = {}
             /\ jpc[j] \in {"finishing", "locking", "done"} => jobLog[j].decoded # "no")
    /\ [][StepBatchesAndDecodesOnce]_vars

\* A job handed two variants has decoded its source and written both, and
\* another job, handed two variants as well, has failed to decode and written
\* nothing.
C26_Witness ==
    \E j \in Jobs, k \in Jobs :
        /\ Cardinality(jobLog[j].handed) = 2
        /\ jobLog[j].decoded = "ok"
        /\ \A path \in jobLog[j].handed : Exists(fs, path)
        /\ Cardinality(jobLog[k].handed) = 2
        /\ jobLog[k].decoded = "failed"
        /\ jpc[k] = "done"

\* C27: on a stream whose segments before SOS hold an APP1, a call of
\* insert_exif_segment that inserts (the block fits) leaves the segments other
\* than APP1 as they were and exactly one APP1 segment before SOS, the new one;
\* a second call with the same block leaves the stream as the first left it.
C27_OneApp1AndIdempotent ==
    (/\ uCall.fn = "insert_exif_segment"
     /\ uCall.pc \in {"returned", "again"}
     /\ uCall.args.form = "jpeg"
     /\ HasApp1(uCall.args.lead \o uCall.args.further)
     /\ Len(ExifBlocks[uCall.args.exif]) + 2 <= U16Max) =>
        LET others == SelectSeq(uCall.args.lead \o uCall.args.further,
                                LAMBDA segment : segment[2] # 225)
        IN  /\ \E k \in 0..Len(others) :
                  uCall.out = Soi \o Flatten(SubSeq(others, 1, k))
                                  \o DocumentedApp1(ExifBlocks[uCall.args.exif])
                                  \o Flatten(SubSeq(others, k + 1, Len(others))) \o Sos
            /\ uCall.pc = "again" => uCall.again = uCall.out

C29_ReturnedDimensionsAreTheOriginalsOwn ==
    (last.n > 0 /\ last.outcome = "ok" /\ last.route \in {"fast", "full"}) =>
        /\ last.width = last.after[last.original].w
        /\ last.height = last.after[last.original].h

\* C30: no two resize jobs that are spawned and not finished have the same
\* variant path still to write: a call does not schedule again what an earlier
\* call has scheduled and no job has written yet.
C30_NoTwoPendingJobsForOnePath ==
    \A j \in Jobs, k \in Jobs :
        (/\ j # k
         /\ jpc[j] \in {"queued", "writing"}
         /\ jpc[k] \in {"queued", "writing"}) =>
            PathsOf(jobBatch[j]) \cap PathsOf(jobBatch[k]) = {}

=============================================================================
